---- MODULE Spec2Model ----
(***************************************************************************)
(* Localization pipeline of the user-management backend:                   *)
(*   app/middleware/localization_middleware.py  (language resolution)      *)
(*   app/utils/localization.py                  (LocalizationManager)      *)
(*   app/utils/i18n.py                          (API message catalog)      *)
(*   app/routers/user_preferences_routes.py, app/routers/language_routes.py*)
(* Python strings are sequences of one-character strings, dicts are        *)
(* functions, lists are sequences.                                         *)
(***************************************************************************)
EXTENDS Integers, Sequences, FiniteSets, TLC

VARIABLES
    supported_languages,  \* LocalizationManager.supported_languages (list)
    translations,         \* LocalizationManager.translations (dict of dicts)
    API_TRANSLATIONS,     \* i18n.API_TRANSLATIONS (dict of dicts)
    locales,              \* the translation files on disk, per language
    declared,             \* the supported_languages argument of the manager
    loaded,               \* the catalogs whose loading has run
    users,                \* database: email -> stored user row
    jar,                  \* the client's cookie jar (dict)
    request,              \* the request handled last
    language,             \* request.state.language of that request
    scope_path,           \* request.scope["path"] handed to routing
    endpoint,             \* the handler routing selected for it
    response,             \* the response the client received
    mw_cookie,            \* Set-Cookie directives emitted by dispatch itself
    sent,                 \* the mails the last email call handed to SMTP
    pending,              \* the UserService.create calls in flight
    call,                 \* the catalog call made last
    result                \* what that call returned

\* the catalogs and what they were loaded from
catalog_vars ==
    <<supported_languages, translations, API_TRANSLATIONS, locales, declared,
      loaded>>

\* the client, the database, the request in flight and the mail sent
request_vars ==
    <<users, jar, request, language, scope_path, endpoint, response, mw_cookie,
      sent, pending>>

vars == <<catalog_vars, request_vars, call, result>>

-----------------------------------------------------------------------------
(* Bounds of the model *)

\* longest Accept-Language header, in comma-separated items
MaxHeaderItems == 2

\* most UserService.create calls in flight at once
MaxCalls == 2

-----------------------------------------------------------------------------
(* Python strings *)

LowerLetters ==
    <<"a","b","c","d","e","f","g","h","i","j","k","l","m",
      "n","o","p","q","r","s","t","u","v","w","x","y","z">>

UpperLetters ==
    <<"A","B","C","D","E","F","G","H","I","J","K","L","M",
      "N","O","P","Q","R","S","T","U","V","W","X","Y","Z">>

\* regex class [a-z]
IsLowerAZ(c) == \E i \in DOMAIN LowerLetters : LowerLetters[i] = c

\* str.lower() on one character
LowerChar(c) ==
    IF \E i \in DOMAIN UpperLetters : UpperLetters[i] = c
    THEN LowerLetters[CHOOSE i \in DOMAIN UpperLetters : UpperLetters[i] = c]
    ELSE c

\* str.lower()
Lower(s) == [i \in DOMAIN s |-> LowerChar(s[i])]

\* s[n:]
DropPrefix(s, n) == SubSeq(s, n + 1, Len(s))

\* s.split(sep) for a one-character separator
RECURSIVE Split(_, _)
Split(s, sep) ==
    IF \A i \in DOMAIN s : s[i] # sep
    THEN <<s>>
    ELSE LET i == CHOOSE k \in DOMAIN s :
                      s[k] = sep /\ \A m \in 1..(k - 1) : s[m] # sep
         IN  <<SubSeq(s, 1, i - 1)>> \o Split(DropPrefix(s, i), sep)

\* dict.get(key) is truthy: the key is present with a non-empty string
Truthy(d, key) == key \in DOMAIN d /\ d[key] # <<>>

EmptyDict == <<>>

\* a dict with the single entry key: value
Dict1(key, value) == [k \in {key} |-> value]

-----------------------------------------------------------------------------
(* Language codes and texts used as inputs *)

en == <<"e","n">>
fr == <<"f","r">>
es == <<"e","s">>
ar == <<"a","r">>
zh == <<"z","h">>
zz == <<"z","z">>

\* i18n.DEFAULT_LANGUAGE
DEFAULT_LANGUAGE == en

\* i18n.SUPPORTED_LANGUAGES (the keys of the dict, in insertion order)
SUPPORTED_LANGUAGES == <<en, es, fr, ar, zh>>

\* LocalizationManager.default_language as get_localization_manager builds it
default_language == en

\* max_age of the preferred_language cookie: 86400 * 30
CookieMaxAge == 86400 * 30

-----------------------------------------------------------------------------
(* LocalizationManager: the supported-language list *)

\* a membership test that accepts every code
is_supported_language_any(lang) == TRUE

\* LocalizationManager.is_supported_language
is_supported_language(lang) ==
    \E i \in DOMAIN supported_languages : supported_languages[i] = lang

\* i18n.is_supported_language
i18n_is_supported_language(lang) ==
    \E i \in DOMAIN SUPPORTED_LANGUAGES : SUPPORTED_LANGUAGES[i] = lang

-----------------------------------------------------------------------------
(* LocalizationMiddleware.dispatch *)

\* language_pattern.match(path): ^/([a-z]{2})(?:/|$)
\* ($ also matches just before a final newline)
PathMatches(path) ==
    /\ Len(path) >= 3
    /\ path[1] = "/"
    /\ IsLowerAZ(path[2])
    /\ IsLowerAZ(path[3])
    /\ \/ Len(path) = 3
       \/ path[4] = "/"
       \/ Len(path) = 4 /\ path[4] = "\n"

\* path_match.group(1)
PathGroup1(path) == SubSeq(path, 2, 3)

\* the path prefix is selected: it matches and is a supported language
PathSelected(path) ==
    PathMatches(path) /\ is_supported_language(PathGroup1(path))

\* "Check URL path parameter": the language after the path step
PathLanguage(req, lang) ==
    IF PathSelected(req.path) THEN PathGroup1(req.path) ELSE lang

\* the rewrite done for every prefix that matches, supported or not
RoutedPathAlwaysStripped(req) ==
    IF PathMatches(req.path) THEN DropPrefix(req.path, 3) ELSE req.path

\* request.scope["path"] after the path step
RoutedPath(req) ==
    IF PathSelected(req.path) THEN DropPrefix(req.path, 3) ELSE req.path

\* "Check query parameter": the language after the query step
QueryLanguage(req, lang) ==
    IF /\ Truthy(req.query_params, "lang")
       /\ is_supported_language(req.query_params["lang"])
    THEN req.query_params["lang"]
    ELSE lang

\* lang_item.split(';')[0].split('-')[0].lower()
ItemLangCode(lang_item) == Lower(Head(Split(Head(Split(lang_item, ";")), "-")))

\* the for loop over the header's items, with its break
RECURSIVE HeaderLoop(_, _)
HeaderLoop(items, lang) ==
    IF items = <<>> THEN lang
    ELSE IF is_supported_language(ItemLangCode(Head(items)))
         THEN ItemLangCode(Head(items))
         ELSE HeaderLoop(Tail(items), lang)

\* the same loop without the break: the last supported item wins
RECURSIVE HeaderLoopNoBreak(_, _)
HeaderLoopNoBreak(items, lang) ==
    IF items = <<>> THEN lang
    ELSE HeaderLoopNoBreak(Tail(items),
            IF is_supported_language(ItemLangCode(Head(items)))
            THEN ItemLangCode(Head(items))
            ELSE lang)

\* the header step built on the loop without break
HeaderLanguageLastWins(accept_language, lang) ==
    HeaderLoopNoBreak(Split(accept_language, ","), lang)

\* the language the Accept-Language value selects, lang if none
HeaderLanguage(accept_language, lang) ==
    HeaderLoop(Split(accept_language, ","), lang)

\* the header step without its "not path_match and not query_lang" guard
AcceptLanguageUnguarded(req, lang) ==
    IF Truthy(req.headers, "Accept-Language")
    THEN HeaderLanguage(req.headers["Accept-Language"], lang)
    ELSE lang

\* "Check Accept-Language header": the language after the header step
AcceptLanguage(req, lang) ==
    IF /\ Truthy(req.headers, "Accept-Language")
       /\ ~PathMatches(req.path)
       /\ ~Truthy(req.query_params, "lang")
    THEN HeaderLanguage(req.headers["Accept-Language"], lang)
    ELSE lang

\* "Check cookie": the language after the cookie step
CookieLanguage(req, lang) ==
    IF /\ Truthy(req.cookies, "preferred_language")
       /\ is_supported_language(req.cookies["preferred_language"])
    THEN req.cookies["preferred_language"]
    ELSE lang

\* request.state.language: the steps in the order dispatch runs them
DetectLanguage(req) ==
    CookieLanguage(req,
        AcceptLanguage(req,
            QueryLanguage(req,
                PathLanguage(req, default_language))))

\* response.set_cookie(key=..., value=..., max_age=...)
SetCookie(key, value, max_age) ==
    [key |-> key, value |-> value, max_age |-> max_age]

\* a directive with every response
LanguageCookieAlways(req, lang) ==
    <<SetCookie("preferred_language", lang, CookieMaxAge)>>

\* "Optionally set language cookie in response"
LanguageCookie(req, lang) ==
    IF \/ "preferred_language" \notin DOMAIN req.cookies
       \/ req.cookies["preferred_language"] # lang
    THEN <<SetCookie("preferred_language", lang, CookieMaxAge)>>
    ELSE <<>>

-----------------------------------------------------------------------------
(* Translation catalogs: loading *)

hello == <<"h","e","l","l","o">>
bye == <<"b","y","e">>

\* the texts a translation file may hold for a key:
\* "", "Hi", "Yo {n}", "{0}", "{"
Templates ==
    { <<>>,
      <<"H","i">>,
      <<"Y","o"," ","{","n","}">>,
      <<"{","0","}">>,
      <<"{">> }

\* the translation tables a file may hold: no key, or hello with some text
Tables == {EmptyDict} \cup { Dict1(hello, t) : t \in Templates }

\* a translation file on disk: missing, malformed, or holding a table
Files ==
    { [state |-> "missing", content |-> EmptyDict],
      [state |-> "malformed", content |-> EmptyDict] }
    \cup { [state |-> "ok", content |-> t] : t \in Tables }

\* the languages that may have a translation file, in directory order
FileLanguages == <<en, fr>>

\* no supported_languages argument: LocalizationManager()
NoLanguages == <<>>

\* the supported_languages argument a manager may be constructed with: none,
\* as get_localization_manager does, or a declared list
DeclaredLanguages == { NoLanguages, <<en, es>> }

\* LocalizationManager.__init__: supported_languages or ["en"]
InitialLanguages(supported) ==
    IF supported = NoLanguages THEN <<en>> ELSE supported

\* LocalizationManager._load_translations: the tables after the loop over
\* locales/*.json (a file that fails to load is skipped)
LoadedTranslations(files) ==
    [l \in { c \in DOMAIN files : files[c].state = "ok" } |-> files[l].content]

\* the language list made of the languages whose file loaded, nothing else
RECURSIVE LoadedLanguagesOnly(_, _, _)
LoadedLanguagesOnly(files, order, supported) ==
    IF order = <<>> THEN <<>>
    ELSE IF files[Head(order)].state = "ok"
         THEN <<Head(order)>> \o LoadedLanguagesOnly(files, Tail(order), supported)
         ELSE LoadedLanguagesOnly(files, Tail(order), supported)

\* LocalizationManager.__init__ and _load_translations: the language list,
\* ["en"] with every loaded language not yet in it appended
RECURSIVE LoadedLanguages(_, _, _)
LoadedLanguages(files, order, supported) ==
    IF order = <<>> THEN supported
    ELSE LET lang_code == Head(order)
             ok == files[lang_code].state = "ok"
             known == \E i \in DOMAIN supported : supported[i] = lang_code
         IN  LoadedLanguages(files, Tail(order),
                 IF ok /\ ~known THEN Append(supported, lang_code)
                 ELSE supported)

\* i18n module load: a table per language of SUPPORTED_LANGUAGES whose
\* api_messages.json exists, {} when reading it fails
LoadedApiTranslations(files) ==
    [l \in { c \in DOMAIN files :
               /\ i18n_is_supported_language(c)
               /\ files[c].state # "missing" } |->
        IF files[l].state = "ok" THEN files[l].content ELSE EmptyDict]

-----------------------------------------------------------------------------
(* Translation lookup *)

\* the lookup with an absent key answered by the empty text
LookupOrEmpty(tables, lang, key) ==
    IF lang \in DOMAIN tables /\ key \in DOMAIN tables[lang]
    THEN {tables[lang][key]}
    ELSE {<<>>}

\* d.get(lang, {}).get(key), as a set: empty for None
Lookup(tables, lang, key) ==
    IF lang \in DOMAIN tables /\ key \in DOMAIN tables[lang]
    THEN {tables[lang][key]}
    ELSE {}

\* a call that returned value
Value(value) == [raised |-> "none", value |-> value]

\* a call that raised
Raise(exception) == [raised |-> exception, value |-> <<>>]

Digits == {"0","1","2","3","4","5","6","7","8","9"}

\* text followed by what formatting the rest gave
Then(text, rest) ==
    IF rest.raised = "none" THEN Value(text \o rest.value) ELSE rest

\* str.format(**kwargs) from position i on, left to right: {{ and }} are
\* braces, {name} is kwargs[name] (KeyError when absent), {} and {0} are
\* positional (IndexError: no positional argument is passed), a single brace
\* is a ValueError
RECURSIVE FormatFrom(_, _, _)
FormatFrom(t, i, kwargs) ==
    IF i > Len(t) THEN Value(<<>>)
    ELSE IF t[i] = "{" THEN
        IF i < Len(t) /\ t[i + 1] = "{"
        THEN Then(<<"{">>, FormatFrom(t, i + 2, kwargs))
        ELSE IF \A j \in (i + 1)..Len(t) : t[j] # "}"
        THEN Raise("ValueError")
        ELSE LET j == CHOOSE k \in (i + 1)..Len(t) :
                          t[k] = "}" /\ \A m \in (i + 1)..(k - 1) : t[m] # "}"
                 field == SubSeq(t, i + 1, j - 1)
             IN  IF \A m \in DOMAIN field : field[m] \in Digits
                 THEN Raise("IndexError")
                 ELSE IF field \in DOMAIN kwargs
                 THEN Then(kwargs[field], FormatFrom(t, j + 1, kwargs))
                 ELSE Raise("KeyError")
    ELSE IF t[i] = "}" THEN
        IF i < Len(t) /\ t[i + 1] = "}"
        THEN Then(<<"}">>, FormatFrom(t, i + 2, kwargs))
        ELSE Raise("ValueError")
    ELSE Then(<<t[i]>>, FormatFrom(t, i + 1, kwargs))

\* translation.format(**kwargs)
Format(t, kwargs) == FormatFrom(t, 1, kwargs)

\* get_translation with an unsupported language answered by the key
get_translation_strict(key, lang, kwargs) ==
    LET found == Lookup(translations, lang, key) IN
    IF ~is_supported_language(lang) \/ found = {} THEN Value(key)
    ELSE LET translation == CHOOSE t \in found : TRUE IN
         IF kwargs # EmptyDict
         THEN LET formatted == Format(translation, kwargs) IN
              IF formatted.raised = "KeyError" THEN Value(translation)
              ELSE formatted
         ELSE Value(translation)

\* get_translation without the second lookup in the default language
get_translation_no_fallback(key, lang, kwargs) ==
    LET used == IF ~is_supported_language(lang) THEN default_language ELSE lang
        found == Lookup(translations, used, key)
    IN  IF found = {} THEN Value(key)
        ELSE LET translation == CHOOSE t \in found : TRUE IN
             IF kwargs # EmptyDict
             THEN LET formatted == Format(translation, kwargs) IN
                  IF formatted.raised = "KeyError" THEN Value(translation)
                  ELSE formatted
             ELSE Value(translation)

\* LocalizationManager.get_translation
get_translation(key, lang, kwargs) ==
    LET used == IF ~is_supported_language(lang) THEN default_language ELSE lang
        first == Lookup(translations, used, key)
        found == IF first = {} /\ used # default_language
                 THEN Lookup(translations, default_language, key)
                 ELSE first
    IN  IF found = {} THEN Value(key)
        ELSE LET translation == CHOOSE t \in found : TRUE IN
             IF kwargs # EmptyDict
             THEN LET formatted == Format(translation, kwargs) IN
                  IF formatted.raised = "KeyError" THEN Value(translation)
                  ELSE formatted
             ELSE Value(translation)

\* i18n.translate_api_message
translate_api_message(key, lang) ==
    LET used == IF i18n_is_supported_language(lang) THEN lang ELSE DEFAULT_LANGUAGE
        first == Lookup(API_TRANSLATIONS, used, key)
        fallback == Lookup(API_TRANSLATIONS, DEFAULT_LANGUAGE, key)
    IN  IF first # {} /\ first # {<<>>} THEN Value(CHOOSE t \in first : TRUE)
        ELSE IF fallback # {} /\ fallback # {<<>>}
             THEN Value(CHOOSE t \in fallback : TRUE)
             ELSE Value(key)

-----------------------------------------------------------------------------
(* Dates and times: datetime, pytz *)

\* tzinfo of a naive datetime (None) and of an aware one
NoTzinfo == [aware |-> FALSE, utcoffset |-> 0, tzname |-> <<>>]

Tzinfo(utcoffset, tzname) ==
    [aware |-> TRUE, utcoffset |-> utcoffset, tzname |-> tzname]

\* pytz.utc
UTC == Tzinfo(0, <<"U","T","C">>)

\* datetime(year, month, day, hour, minute, second, tzinfo=tzinfo)
datetime(year, month, day, hour, minute, second, tzinfo) ==
    [year |-> year, month |-> month, day |-> day, hour |-> hour,
     minute |-> minute, second |-> second, tzinfo |-> tzinfo]

IsLeap(year) == (year % 4 = 0 /\ year % 100 # 0) \/ year % 400 = 0

DaysInMonth(year, month) ==
    IF month = 2 THEN (IF IsLeap(year) THEN 29 ELSE 28)
    ELSE IF month \in {4, 6, 9, 11} THEN 30 ELSE 31

\* the same wall-clock time on the next and on the previous day
NextDay(dt) ==
    IF dt.day < DaysInMonth(dt.year, dt.month)
    THEN [dt EXCEPT !.day = dt.day + 1]
    ELSE IF dt.month < 12
         THEN [dt EXCEPT !.month = dt.month + 1, !.day = 1]
         ELSE [dt EXCEPT !.year = dt.year + 1, !.month = 1, !.day = 1]

PrevDay(dt) ==
    IF dt.day > 1 THEN [dt EXCEPT !.day = dt.day - 1]
    ELSE IF dt.month > 1
         THEN [dt EXCEPT !.month = dt.month - 1,
                         !.day = DaysInMonth(dt.year, dt.month - 1)]
         ELSE [dt EXCEPT !.year = dt.year - 1, !.month = 12, !.day = 31]

\* dt + timedelta(minutes=minutes), for less than a day either way
AddMinutes(dt, minutes) ==
    LET total == dt.hour * 60 + dt.minute + minutes
        onday == IF total < 0 THEN PrevDay(dt)
                 ELSE IF total >= 24 * 60 THEN NextDay(dt)
                 ELSE dt
        inday == (total + 24 * 60) % (24 * 60)
    IN  [onday EXCEPT !.hour = inday \div 60, !.minute = inday % 60]

\* a < b for two wall-clock times of the same zone
Before(a, b) ==
    LET ka == <<a.year, a.month, a.day, a.hour, a.minute>>
        kb == <<b.year, b.month, b.day, b.hour, b.minute>>
    IN  \E i \in 1..5 : ka[i] < kb[i] /\ \A j \in 1..(i - 1) : ka[j] = kb[j]

\* the zones of the timezone database the model knows, with their standard
\* and daylight offsets from UTC in minutes and their abbreviations
ZoneRules ==
    [ z \in {"UTC", "Europe/Paris", "America/New_York", "Asia/Kolkata"} |->
        CASE z = "UTC" ->
               [std |-> UTC, dst |-> UTC]
          [] z = "Europe/Paris" ->
               [std |-> Tzinfo(60, <<"C","E","T">>),
                dst |-> Tzinfo(120, <<"C","E","S","T">>)]
          [] z = "America/New_York" ->
               [std |-> Tzinfo(-300, <<"E","S","T">>),
                dst |-> Tzinfo(-240, <<"E","D","T">>)]
          [] z = "Asia/Kolkata" ->
               [std |-> Tzinfo(330, <<"I","S","T">>),
                dst |-> Tzinfo(330, <<"I","S","T">>)] ]

\* the UTC times at which daylight time starts and ends in a zone in 2023 and
\* 2024 (Paris: last Sundays of March and October, 01:00 UTC; New York:
\* second Sunday of March 07:00 UTC, first Sunday of November 06:00 UTC)
DaylightTime(zone, year) ==
    IF zone = "Europe/Paris" THEN
        IF year = 2023
        THEN <<datetime(2023, 3, 26, 1, 0, 0, UTC), datetime(2023, 10, 29, 1, 0, 0, UTC)>>
        ELSE <<datetime(2024, 3, 31, 1, 0, 0, UTC), datetime(2024, 10, 27, 1, 0, 0, UTC)>>
    ELSE IF year = 2023
        THEN <<datetime(2023, 3, 12, 7, 0, 0, UTC), datetime(2023, 11, 5, 6, 0, 0, UTC)>>
        ELSE <<datetime(2024, 3, 10, 7, 0, 0, UTC), datetime(2024, 11, 3, 6, 0, 0, UTC)>>

\* tz.utcoffset and tz.tzname of a zone at a UTC time
ZoneAt(zone, utc) ==
    LET period == DaylightTime(zone, utc.year) IN
    IF /\ zone \in {"Europe/Paris", "America/New_York"}
       /\ ~Before(utc, period[1])
       /\ Before(utc, period[2])
    THEN ZoneRules[zone].dst
    ELSE ZoneRules[zone].std

\* pytz.timezone(zone): the zone, or UnknownTimeZoneError
pytz_timezone(zone) ==
    IF zone \in DOMAIN ZoneRules THEN Value(zone)
    ELSE Raise("UnknownTimeZoneError")

\* pytz.utc.localize(dt) and dt.replace(tzinfo=pytz.UTC)
utc_localize(dt) == [dt EXCEPT !.tzinfo = UTC]

\* an aware datetime expressed in UTC
ToUtc(dt) == [AddMinutes(dt, 0 - dt.tzinfo.utcoffset) EXCEPT !.tzinfo = UTC]

\* the zone attached to the wall clock as it is, without converting
astimezone_replace(dt, zone) ==
    [dt EXCEPT !.tzinfo = ZoneAt(zone, dt)]

\* dt.astimezone(tz) for an aware dt
astimezone(dt, zone) ==
    LET utc == ToUtc(dt)
        at == ZoneAt(zone, utc)
    IN  [AddMinutes(utc, at.utcoffset) EXCEPT !.tzinfo = at]

-----------------------------------------------------------------------------
(* strftime *)

Digit(n) == CASE n = 0 -> "0" [] n = 1 -> "1" [] n = 2 -> "2" [] n = 3 -> "3"
              [] n = 4 -> "4" [] n = 5 -> "5" [] n = 6 -> "6" [] n = 7 -> "7"
              [] n = 8 -> "8" [] n = 9 -> "9"

\* a number zero-padded to two and to four digits
Pad2(n) == <<Digit((n \div 10) % 10), Digit(n % 10)>>

Pad4(n) == Pad2(n \div 100) \o Pad2(n % 100)

\* the text of one strftime directive
Directive(dt, c) ==
    CASE c = "d" -> Pad2(dt.day)
      [] c = "m" -> Pad2(dt.month)
      [] c = "Y" -> Pad4(dt.year)
      [] c = "H" -> Pad2(dt.hour)
      [] c = "M" -> Pad2(dt.minute)
      [] c = "S" -> Pad2(dt.second)
      [] c = "Z" -> dt.tzinfo.tzname
      [] OTHER -> <<"%", c>>

\* dt.strftime(format) from position i on
RECURSIVE StrftimeFrom(_, _, _)
StrftimeFrom(dt, format, i) ==
    IF i > Len(format) THEN <<>>
    ELSE IF format[i] = "%" /\ i < Len(format)
         THEN Directive(dt, format[i + 1]) \o StrftimeFrom(dt, format, i + 2)
         ELSE <<format[i]>> \o StrftimeFrom(dt, format, i + 1)

strftime(dt, format) == StrftimeFrom(dt, format, 1)

-----------------------------------------------------------------------------
(* Authentication and the preference endpoints *)

\* jwt_service.decode_token: the payload, or None for an invalid token
decode_token(token) ==
    IF token.valid THEN [none |-> FALSE, payload |-> token.payload]
    ELSE [none |-> TRUE, payload |-> EmptyDict]

\* dependencies.get_current_user: the dict it returns, or the 401 it raises
get_current_user(token) ==
    LET decoded == decode_token(token) IN
    IF decoded.none THEN [status |-> 401, user |-> EmptyDict]
    ELSE IF \/ "sub" \notin DOMAIN decoded.payload
            \/ "role" \notin DOMAIN decoded.payload
         THEN [status |-> 401, user |-> EmptyDict]
         ELSE [status |-> 200,
               user |-> [user_id |-> decoded.payload["sub"],
                         role |-> decoded.payload["role"]]]

\* what a handler hands back to call_next: a response (status, Set-Cookie
\* headers), or an exception no handler below the middleware catches
Returned(status, set_cookie, db) ==
    [raised |-> FALSE, status |-> status, set_cookie |-> set_cookie, users |-> db]

Raised(db) ==
    [raised |-> TRUE, status |-> 500, set_cookie |-> <<>>, users |-> db]

\* UserService.get_by_email
get_by_email(db, email) == email \in DOMAIN db

\* UserService.update: sets the given fields on the user with that id and
\* returns the user, or None when there is no such user
UserService_update(db, user_id, field, value) ==
    IF user_id \in DOMAIN db
    THEN [found |-> TRUE, users |-> [db EXCEPT ![user_id][field] = value]]
    ELSE [found |-> FALSE, users |-> db]

\* user_preferences_routes.update_language_preference (PUT /preferences/language)
update_language_preference(req, db) ==
    LET auth == get_current_user(req.token)
        new_language == req.body["language"]
    IN
    IF auth.status # 200 THEN Returned(auth.status, <<>>, db)
    ELSE IF ~is_supported_language(new_language) THEN Returned(400, <<>>, db)
    ELSE IF "sub" \notin DOMAIN auth.user THEN Raised(db)   \* current_user["sub"]
    ELSE IF ~get_by_email(db, auth.user["sub"]) THEN Returned(404, <<>>, db)
    ELSE Returned(200,
                  <<SetCookie("preferred_language", new_language, CookieMaxAge)>>,
                  [db EXCEPT ![auth.user["sub"]].preferred_language = new_language])

\* i18n.get_translator: a gettext translations object (GNUTranslations, or
\* NullTranslations when no message file is found)
Translations == [class |-> "NullTranslations"]

\* main.add_locale_to_request: the request as the handlers see it, with the
\* translations object in request.state.gettext
add_locale_to_request(req) ==
    [req EXCEPT !.state = [gettext |-> Translations]]

\* lambda x: x
Lambda == [class |-> "function"]

\* _("...") can be evaluated: a function can be called, a gettext
\* translations object has no __call__ (TypeError)
Callable(f) == f.class = "function"

\* language_routes.set_language_preference (PUT /languages/preference)
set_language_preference(req, db) ==
    LET auth == get_current_user(req.token)
        language_code == req.query_params["language_code"]
        gettext == IF "gettext" \in DOMAIN req.state THEN req.state.gettext
                   ELSE Lambda
    IN
    IF auth.status # 200 THEN Returned(auth.status, <<>>, db)
    ELSE IF ~i18n_is_supported_language(language_code)
         THEN IF Callable(gettext) THEN Returned(400, <<>>, db)
              ELSE Raised(db)                      \* _("Unsupported language")
    ELSE IF "id" \notin DOMAIN auth.user THEN Raised(db)    \* current_user.id
    ELSE LET updated == UserService_update(db, auth.user["id"],
                                           "preferred_language", language_code)
         IN  IF ~Callable(gettext) THEN Raised(updated.users)  \* _("...")
             ELSE IF updated.found THEN Returned(200, <<>>, updated.users)
             ELSE Returned(500, <<>>, db)

\* datetime_utils.is_valid_timezone
is_valid_timezone(tz_str) == pytz_timezone(tz_str).raised = "none"

\* user_preferences_routes.update_timezone_preference (PUT /preferences/timezone)
update_timezone_preference(req, db) ==
    LET auth == get_current_user(req.token)
        timezone == req.body["timezone"]
    IN
    IF auth.status # 200 THEN Returned(auth.status, <<>>, db)
    ELSE IF pytz_timezone(timezone).raised = "UnknownTimeZoneError"
         THEN Returned(400, <<>>, db)
    ELSE IF "sub" \notin DOMAIN auth.user THEN Raised(db)   \* current_user["sub"]
    ELSE IF ~get_by_email(db, auth.user["sub"]) THEN Returned(404, <<>>, db)
    ELSE Returned(200, <<>>,
                  [db EXCEPT ![auth.user["sub"]].timezone = timezone])

\* timezone_routes.set_timezone_preference (PUT /timezones/preference); its
\* refusals are answers with success false, not errors
set_timezone_preference(req, db) ==
    LET auth == get_current_user(req.token)
        timezone == req.query_params["timezone"]
    IN
    IF auth.status # 200 THEN Returned(auth.status, <<>>, db)
    ELSE IF "gettext" \notin DOMAIN req.state THEN Raised(db)  \* request.state.gettext
    ELSE IF ~is_valid_timezone(timezone)
         THEN IF Callable(req.state.gettext) THEN Returned(200, <<>>, db)
              ELSE Raised(db)                      \* _("Invalid timezone")
    ELSE IF "id" \notin DOMAIN auth.user THEN Raised(db)    \* current_user.id
    ELSE LET updated == UserService_update(db, auth.user["id"],
                                           "preferred_timezone", timezone)
         IN  IF Callable(req.state.gettext)
             THEN Returned(200, <<>>, updated.users)
             ELSE Raised(updated.users)

\* any other route: the handler sets no cookie and stores nothing
other_endpoint(req, db) == Returned(200, <<>>, db)

ROUTE_UPDATE_LANGUAGE ==
    <<"/","p","r","e","f","e","r","e","n","c","e","s",
      "/","l","a","n","g","u","a","g","e">>

ROUTE_SET_LANGUAGE ==
    <<"/","l","a","n","g","u","a","g","e","s",
      "/","p","r","e","f","e","r","e","n","c","e">>

ROUTE_UPDATE_TIMEZONE ==
    <<"/","p","r","e","f","e","r","e","n","c","e","s",
      "/","t","i","m","e","z","o","n","e">>

ROUTE_SET_TIMEZONE ==
    <<"/","t","i","m","e","z","o","n","e","s",
      "/","p","r","e","f","e","r","e","n","c","e">>

ROUTE_USERS == <<"/","u","s","e","r","s">>

\* the router: the handler registered for the routed path
Route(path) ==
    IF path = ROUTE_UPDATE_LANGUAGE THEN "update_language_preference"
    ELSE IF path = ROUTE_SET_LANGUAGE THEN "set_language_preference"
    ELSE IF path = ROUTE_UPDATE_TIMEZONE THEN "update_timezone_preference"
    ELSE IF path = ROUTE_SET_TIMEZONE THEN "set_timezone_preference"
    ELSE "other"

\* the client stores the Set-Cookie headers of a response, in header order
RECURSIVE StoreCookies(_, _)
StoreCookies(cookies, set_cookie) ==
    IF set_cookie = <<>> THEN cookies
    ELSE LET c == Head(set_cookie) IN
         StoreCookies([k \in DOMAIN cookies \cup {c.key} |->
                          IF k = c.key THEN c.value ELSE cookies[k]],
                      Tail(set_cookie))

-----------------------------------------------------------------------------
(* The requests a client sends *)

\* d1 | d2
Merge(d1, d2) ==
    [k \in DOMAIN d1 \cup DOMAIN d2 |-> IF k \in DOMAIN d2 THEN d2[k] ELSE d1[k]]

\* sep.join(items)
RECURSIVE Join(_, _)
Join(items, sep) ==
    IF items = <<>> THEN <<>>
    ELSE IF Len(items) = 1 THEN Head(items)
    ELSE Head(items) \o sep \o Join(Tail(items), sep)

\* fr;q=0.5   ES-mx;q=0.9   zz   " fr" (a space after the comma)
HeaderItems ==
    { <<"f","r",";","q","=","0",".","5">>,
      <<"E","S","-","m","x",";","q","=","0",".","9">>,
      zz,
      <<" ","f","r">> }

\* the Accept-Language values: up to MaxHeaderItems items, "" included
AcceptLanguageValues ==
    { Join(items, <<",">>) :
        items \in UNION { [1..n -> HeaderItems] : n \in 0..MaxHeaderItems } }

HeaderDicts ==
    {EmptyDict} \cup { Dict1("Accept-Language", v) : v \in AcceptLanguageValues }

\* ?lang= absent, empty, supported, unsupported
QueryDicts == {EmptyDict} \cup { Dict1("lang", v) : v \in {<<>>, es, zz} }

\* the cookie jar: no preferred_language cookie, an empty one, a language
CookieDicts ==
    {EmptyDict} \cup { Dict1("preferred_language", v) : v \in {<<>>, en, fr, es, zz} }

\* /fr, /es (supported), /me (matches the pattern), /FR (does not)
PathPrefixes == { <<"/","f","r">>, <<"/","e","s">>, <<"/","m","e">>, <<"/","F","R">> }

\* the routes bare; /users under every prefix, the preference routes under a
\* supported one; /fr, /fr\n and /french
Paths ==
    {ROUTE_USERS, ROUTE_UPDATE_LANGUAGE, ROUTE_SET_LANGUAGE}
    \cup { pre \o ROUTE_USERS : pre \in PathPrefixes }
    \cup { <<"/","f","r">> \o ROUTE_UPDATE_LANGUAGE,
           <<"/","e","s">> \o ROUTE_SET_LANGUAGE }
    \cup { <<"/","f","r">>, <<"/","f","r","\n">>, <<"/","f","r","e","n","c","h">> }

NoToken == [valid |-> FALSE, payload |-> EmptyDict]

UserEmail == "user@example.com"

\* a token login issued: create_access_token(data={"sub": ..., "role": ...})
UserToken ==
    [valid |-> TRUE, payload |-> [sub |-> UserEmail, role |-> "AUTHENTICATED"]]

\* the languages a client asks to store: supported by both catalogs, by
\* i18n.SUPPORTED_LANGUAGES only, by neither
PreferenceInputs == {fr, ar, zz}

Request(path, query_params, headers, cookies, token, body) ==
    [path |-> path, query_params |-> query_params, headers |-> headers,
     cookies |-> cookies, token |-> token, body |-> body, state |-> EmptyDict]

NoRequest == Request(<<>>, EmptyDict, EmptyDict, EmptyDict, NoToken, EmptyDict)

NoResponse == [status |-> 0, set_cookie |-> <<>>, by_dispatch |-> FALSE]

-----------------------------------------------------------------------------
(* The catalogs as loaded at startup (resolution does not depend on the tables) *)

NoCall == [fn |-> "none"]

\* the translation files behind the requests: en, fr and es, each loaded
RequestFiles ==
    [l \in {en, fr, es} |-> [state |-> "ok", content |-> Dict1(hello, <<"H","i">>)]]

InitialUsers ==
    [e \in {UserEmail} |->
        [preferred_language |-> en, timezone |-> "UTC",
         preferred_timezone |-> "UTC"]]

-----------------------------------------------------------------------------
(* Requests through LocalizationMiddleware.dispatch *)

\* call_next: through main.add_locale_to_request to the handler registered for
\* the routed path
CallNext(req, path, db) ==
    LET ep == Route(path)
        seen == add_locale_to_request(req)
    IN
    IF ep = "update_language_preference" THEN update_language_preference(seen, db)
    ELSE IF ep = "set_language_preference" THEN set_language_preference(seen, db)
    ELSE IF ep = "update_timezone_preference" THEN update_timezone_preference(seen, db)
    ELSE IF ep = "set_timezone_preference" THEN set_timezone_preference(seen, db)
    ELSE other_endpoint(seen, db)

\* dispatch, from the request to the response the client stores. An exception
\* that escapes call_next ends dispatch; main.custom_exception_handler then
\* answers 500.
Dispatch(req) ==
    LET lang == DetectLanguage(req)
        path == RoutedPath(req)
        out  == CallNext(req, path, users)
        own  == IF out.raised THEN <<>> ELSE LanguageCookie(req, lang)
        resp == [status |-> out.status,
                 set_cookie |-> out.set_cookie \o own,
                 by_dispatch |-> ~out.raised]
    IN  /\ request' = req
        /\ language' = lang
        /\ scope_path' = path
        /\ endpoint' = Route(path)
        /\ users' = out.users
        /\ mw_cookie' = own
        /\ response' = resp
        /\ jar' = StoreCookies(jar, resp.set_cookie)
        /\ UNCHANGED <<catalog_vars, call, result, sent, pending>>

\* the client's first request carries any signals; the later ones carry
\* nothing but the cookies (no language prefix, no lang parameter, no header)
ClientPaths == IF endpoint = "none" THEN Paths ELSE {ROUTE_USERS}

ClientQueries == IF endpoint = "none" THEN QueryDicts ELSE {EmptyDict}

ClientHeaders == IF endpoint = "none" THEN HeaderDicts ELSE {EmptyDict}

\* a request routed to update_language_preference: the language to store is
\* in the body
UpdateLanguagePreference ==
    \E p \in ClientPaths :
        /\ Route(RoutedPath([path |-> p])) = "update_language_preference"
        /\ \E q \in ClientQueries, h \in ClientHeaders,
              t \in {NoToken, UserToken}, l \in PreferenceInputs :
               Dispatch(Request(p, q, h, jar, t, Dict1("language", l)))

\* a request routed to set_language_preference: the language to store is the
\* language_code query parameter
SetLanguagePreference ==
    \E p \in ClientPaths :
        /\ Route(RoutedPath([path |-> p])) = "set_language_preference"
        /\ \E q \in ClientQueries, h \in ClientHeaders,
              t \in {NoToken, UserToken}, l \in PreferenceInputs :
               Dispatch(Request(p, Merge(q, Dict1("language_code", l)),
                                h, jar, t, EmptyDict))

\* a request routed anywhere else
OtherRequest ==
    \E p \in ClientPaths :
        /\ Route(RoutedPath([path |-> p])) = "other"
        /\ \E q \in ClientQueries, h \in ClientHeaders :
               Dispatch(Request(p, q, h, jar, NoToken, EmptyDict))

Init ==
    /\ supported_languages = LoadedLanguages(RequestFiles, <<en, fr, es>>, <<en>>)
    /\ translations = LoadedTranslations(RequestFiles)
    /\ API_TRANSLATIONS = LoadedApiTranslations(RequestFiles)
    /\ locales = RequestFiles
    /\ declared = NoLanguages
    /\ loaded = {"manager", "i18n"}
    /\ users = InitialUsers
    /\ jar \in CookieDicts
    /\ request = NoRequest
    /\ language = default_language
    /\ scope_path = <<>>
    /\ endpoint = "none"
    /\ response = NoResponse
    /\ mw_cookie = <<>>
    /\ sent = <<>>
    /\ pending = <<>>
    /\ call = NoCall
    /\ result = Value(<<>>)

Next ==
    \/ UpdateLanguagePreference
    \/ SetLanguagePreference
    \/ OtherRequest

Spec == Init /\ [][Next]_vars

-----------------------------------------------------------------------------
(* Timezone preference requests *)

\* the paths of the two timezone endpoints, plain and behind a language prefix
TimezonePaths ==
    { prefix \o route : prefix \in {<<>>, <<"/","f","r">>},
                        route \in {ROUTE_UPDATE_TIMEZONE, ROUTE_SET_TIMEZONE} }

\* the identifiers submitted: in datetime_utils.COMMON_TIMEZONES (UTC,
\* Europe/Paris), known to the timezone database but not in that list
\* (Asia/Kolkata), and unknown
TimezonePreferences == {"UTC", "Europe/Paris", "Asia/Kolkata", "Mars/Phobos", ""}

\* a request routed to update_timezone_preference: the timezone to store is
\* in the body
UpdateTimezonePreference ==
    \E p \in TimezonePaths :
        /\ Route(RoutedPath([path |-> p])) = "update_timezone_preference"
        /\ \E t \in {NoToken, UserToken}, tz \in TimezonePreferences :
               Dispatch(Request(p, EmptyDict, EmptyDict, jar, t,
                                Dict1("timezone", tz)))

\* a request routed to set_timezone_preference: the timezone to store is the
\* timezone query parameter
SetTimezonePreference ==
    \E p \in TimezonePaths :
        /\ Route(RoutedPath([path |-> p])) = "set_timezone_preference"
        /\ \E t \in {NoToken, UserToken}, tz \in TimezonePreferences :
               Dispatch(Request(p, Dict1("timezone", tz), EmptyDict, jar, t,
                                EmptyDict))

NextTimezone ==
    \/ UpdateTimezonePreference
    \/ SetTimezonePreference

SpecTimezone == Init /\ [][NextTimezone]_vars

-----------------------------------------------------------------------------
(* Properties of language resolution *)

\* a request has been handled
Handled == endpoint # "none"

\* lang is in the supported-language list
Supported(lang) == lang \in { supported_languages[i] : i \in DOMAIN supported_languages }

\* the two letters of a path prefix that matches the pattern, as a set
PathCodes(req) ==
    IF PathMatches(req.path) THEN {SubSeq(req.path, 2, 3)} ELSE {}

\* the value of the lang query parameter, as a set
QueryCodes(req) ==
    IF "lang" \in DOMAIN req.query_params THEN {req.query_params["lang"]} ELSE {}

\* the value of the preferred_language cookie, as a set
CookieCodes(req) ==
    IF "preferred_language" \in DOMAIN req.cookies
    THEN {req.cookies["preferred_language"]} ELSE {}

\* the primary subtag of a header item: the text before any ";" and any "-"
PrimarySubtag(item) == Head(Split(Head(Split(item, ";")), "-"))

\* the items of the Accept-Language header, in header order
HeaderItemsOf(req) ==
    IF "Accept-Language" \in DOMAIN req.headers
    THEN Split(req.headers["Accept-Language"], ",")
    ELSE <<>>

\* the positions of the items whose lower-cased primary subtag is supported
SupportedItems(req) ==
    { i \in DOMAIN HeaderItemsOf(req) :
        Supported(Lower(PrimarySubtag(HeaderItemsOf(req)[i]))) }

\* the lower-cased primary subtags of the header's items
HeaderCodes(req) ==
    { Lower(PrimarySubtag(HeaderItemsOf(req)[i])) : i \in DOMAIN HeaderItemsOf(req) }

\* C1: when the path starts with a supported language prefix P and the query
\* string carries lang=Q with Q supported and Q # P, and there is no cookie,
\* the resolved language is P.
C1_PathBeatsQuery ==
    Handled =>
        \A P \in PathCodes(request), Q \in QueryCodes(request) :
            ( /\ Supported(P) /\ Supported(Q) /\ Q # P
              /\ CookieCodes(request) = {} )
            => language = P

\* C2: when the path prefix, the query parameter or the header yields a
\* supported language and the cookie holds a different supported language C,
\* the resolved language is not C: the cookie is selected only when none of
\* path, query and header matched a supported code.
C2_CookieIsLowest ==
    Handled =>
        \A C \in CookieCodes(request) :
            ( /\ Supported(C)
              /\ \E L \in PathCodes(request) \cup QueryCodes(request)
                          \cup HeaderCodes(request) : Supported(L) /\ L # C
              /\ C \notin PathCodes(request) \cup QueryCodes(request)
                          \cup HeaderCodes(request) )
            => language # C

\* the request carries an Accept-Language header and nothing else: no path
\* prefix matching the pattern, no lang parameter, no cookie
HeaderOnly(req) ==
    /\ "Accept-Language" \in DOMAIN req.headers
    /\ PathCodes(req) = {}
    /\ QueryCodes(req) = {}
    /\ CookieCodes(req) = {}

\* the least element of a non-empty set of positions
First(positions) == CHOOSE i \in positions : \A j \in positions : i <= j

\* C3: for a request that carries only an Accept-Language header, the resolved
\* language is the lower-cased primary subtag of the first item, in header
\* order, whose primary subtag is supported, whatever the q weights.
C3_HeaderOrderWins ==
    (Handled /\ HeaderOnly(request) /\ SupportedItems(request) # {}) =>
        language =
            Lower(PrimarySubtag(HeaderItemsOf(request)[First(SupportedItems(request))]))

\* fr;q=0.5,ES-mx;q=0.9 resolved to fr
C3_Witness ==
    /\ Handled
    /\ HeaderOnly(request)
    /\ request.headers["Accept-Language"] =
         <<"f","r",";","q","=","0",".","5",",",
           "E","S","-","m","x",";","q","=","0",".","9">>
    /\ language = fr

\* the codes any signal of the request carries
SignalCodes(req) ==
    PathCodes(req) \cup QueryCodes(req) \cup HeaderCodes(req) \cup CookieCodes(req)

\* the request carries no signal at all
NoSignals(req) ==
    /\ PathCodes(req) = {} /\ QueryCodes(req) = {} /\ CookieCodes(req) = {}
    /\ "Accept-Language" \notin DOMAIN req.headers

\* C4 as stated: if at least one signal carries a supported code, the resolved
\* language is a supported code carried by one of the signals; with no signal
\* at all it is the default language.
C4_DefaultOnlyWhenNothingMatched ==
    Handled =>
        /\ (\E L \in SignalCodes(request) : Supported(L))
              => (language \in SignalCodes(request) /\ Supported(language))
        /\ NoSignals(request) => language = default_language

\* the header is consulted: no path prefix matches the pattern and no
\* non-empty lang parameter is present
HeaderConsulted(req) ==
    PathCodes(req) = {} /\ QueryCodes(req) \subseteq {<<>>}

\* the codes of the signals dispatch consults
ConsultedCodes(req) ==
    PathCodes(req) \cup QueryCodes(req) \cup CookieCodes(req)
    \cup (IF HeaderConsulted(req) THEN HeaderCodes(req) ELSE {})

\* C4 amended: if the path prefix, the lang parameter or the cookie carries a
\* supported code, or the header does while it is consulted (no path prefix
\* matching the pattern, no non-empty lang parameter), the resolved language is
\* a supported code carried by one of those signals; with no signal at all it
\* is the default language.
C4_DefaultOnlyWhenNoConsultedMatch ==
    Handled =>
        /\ (\E L \in ConsultedCodes(request) : Supported(L))
              => (language \in ConsultedCodes(request) /\ Supported(language))
        /\ NoSignals(request) => language = default_language

\* a supported header item is the only supported signal and is selected
C4_Witness ==
    /\ Handled
    /\ HeaderConsulted(request)
    /\ CookieCodes(request) = {}
    /\ SupportedItems(request) # {}
    /\ language \in HeaderCodes(request)
    /\ language # default_language

\* the language dispatch resolves for the handled request with other headers
WithHeaders(h) == DetectLanguage([request EXCEPT !.headers = h])

\* C5 as stated: whenever a path prefix matches the pattern or a lang
\* parameter is present, requests that differ only in their Accept-Language
\* header resolve to the same language.
C5_HeaderIgnoredWhenPathOrQuery ==
    (Handled /\ (PathCodes(request) # {} \/ QueryCodes(request) # {})) =>
        \A h \in HeaderDicts : WithHeaders(h) = language

\* C5 amended: whenever a path prefix matches the pattern or a non-empty lang
\* parameter is present, requests that differ only in their Accept-Language
\* header resolve to the same language.
C5_HeaderIgnoredWhenPathOrNonEmptyQuery ==
    (Handled /\ ~HeaderConsulted(request)) =>
        \A h \in HeaderDicts : WithHeaders(h) = language

\* an unsupported path prefix hides a header that names a supported language
C5_Witness ==
    /\ Handled
    /\ PathCodes(request) # {}
    /\ \A P \in PathCodes(request) : ~Supported(P)
    /\ QueryCodes(request) = {}
    /\ CookieCodes(request) = {}
    /\ SupportedItems(request) # {}
    /\ language = default_language

\* thirty days, in seconds
ThirtyDays == 30 * 24 * 60 * 60

\* the directive for the resolved language
LanguageDirective ==
    [key |-> "preferred_language", value |-> language, max_age |-> ThirtyDays]

\* C6: the response carries a preferred_language cookie directive, with the
\* resolved language as value and a max_age of 30 days, if and only if the
\* request's preferred_language cookie is absent or differs from the resolved
\* language; when they are equal the middleware emits no directive.
C6_CookieDirectiveIffDisagrees ==
    Handled =>
        /\ (\E i \in DOMAIN response.set_cookie :
                response.set_cookie[i] = LanguageDirective)
              <=> CookieCodes(request) # {language}
        /\ CookieCodes(request) = {language} => mw_cookie = <<>>

\* the same for the responses dispatch itself returns: it holds whenever
\* call_next returns instead of raising
DispatchCookieDirective ==
    (Handled /\ response.by_dispatch) =>
        /\ mw_cookie =
             IF CookieCodes(request) # {language}
             THEN <<LanguageDirective>>
             ELSE <<>>
        /\ response.set_cookie = mw_cookie

\* the language a preference request asks to store, as a set
RequestedLanguage ==
    IF endpoint = "update_language_preference" THEN {request.body["language"]}
    ELSE IF endpoint = "set_language_preference"
         THEN {request.query_params["language_code"]}
         ELSE {}

\* the language the endpoint accepts: each one checks its own catalog
AcceptedLanguage(lang) ==
    IF endpoint = "update_language_preference" THEN Supported(lang)
    ELSE lang \in { SUPPORTED_LANGUAGES[i] : i \in DOMAIN SUPPORTED_LANGUAGES }

\* C7: after an authenticated user sets the language preference to a supported
\* language L, through either endpoint and whatever signals that request
\* carried, the client's preferred_language cookie is L and a request that
\* carries only that cookie resolves to L.
C7_PreferenceRoundTrip ==
    \A L \in RequestedLanguage :
        (request.token.valid /\ AcceptedLanguage(L) /\ Supported(L)) =>
            /\ jar = Dict1("preferred_language", L)
            /\ DetectLanguage(Request(ROUTE_USERS, EmptyDict, EmptyDict, jar,
                                      NoToken, EmptyDict)) = L

\* C8: the path is rewritten exactly when its two-letter prefix matches the
\* pattern and is a supported language; then routing sees the path without
\* its first three characters, otherwise the path unchanged.
C8_PrefixStrippedIffSupported ==
    Handled =>
        LET stripped == \E P \in PathCodes(request) : Supported(P)
            expected == IF stripped
                        THEN SubSeq(request.path, 4, Len(request.path))
                        ELSE request.path
        IN  /\ scope_path = expected
            /\ endpoint = Route(expected)

\* /fr/preferences/language reached update_language_preference
C8_Witness ==
    /\ Handled
    /\ request.path = <<"/","f","r">> \o ROUTE_UPDATE_LANGUAGE
    /\ scope_path = ROUTE_UPDATE_LANGUAGE
    /\ endpoint = "update_language_preference"

-----------------------------------------------------------------------------
(* Calls into the loaded catalogs *)

\* the keys looked up: one the files may hold, one no file holds
Keys == {hello, bye}

\* the languages asked for: with a file or without, declared or not
CallLanguages == {en, fr, es, zz}

\* the format parameters passed: none, n, m
CallKwargs ==
    { EmptyDict, Dict1(<<"n">>, <<"A","l">>), Dict1(<<"m">>, <<"x">>) }

\* loc_manager.get_translation(key, language, **kwargs)
GetTranslation ==
    \E key \in Keys, lang \in CallLanguages, kwargs \in CallKwargs :
        /\ "manager" \in loaded
        /\ call' = [fn |-> "get_translation", key |-> key,
                    language |-> lang, kwargs |-> kwargs]
        /\ result' = get_translation(key, lang, kwargs)
        /\ UNCHANGED <<catalog_vars, request_vars>>

\* translate_api_message(key, lang)
TranslateApiMessage ==
    \E key \in Keys, lang \in CallLanguages :
        /\ "i18n" \in loaded
        /\ call' = [fn |-> "translate_api_message", key |-> key,
                    language |-> lang, kwargs |-> EmptyDict]
        /\ result' = translate_api_message(key, lang)
        /\ UNCHANGED <<catalog_vars, request_vars>>

\* LocalizationManager.__init__ with _load_translations: the first call of
\* get_localization_manager builds the manager from the files on disk
LoadTranslations ==
    /\ "manager" \notin loaded
    /\ supported_languages' =
           LoadedLanguages(locales, FileLanguages, InitialLanguages(declared))
    /\ translations' = LoadedTranslations(locales)
    /\ loaded' = loaded \cup {"manager"}
    /\ UNCHANGED <<API_TRANSLATIONS, locales, declared, request_vars,
                   call, result>>

\* import of app.utils.i18n: the loop that fills API_TRANSLATIONS
LoadApiTranslations ==
    /\ "i18n" \notin loaded
    /\ API_TRANSLATIONS' = LoadedApiTranslations(locales)
    /\ loaded' = loaded \cup {"i18n"}
    /\ UNCHANGED <<supported_languages, translations, locales, declared,
                   request_vars, call, result>>

\* the process before startup: any files on disk, no catalog loaded yet
InitTranslate ==
    \E files \in [{ FileLanguages[i] : i \in DOMAIN FileLanguages } -> Files],
       supported \in DeclaredLanguages :
        /\ locales = files
        /\ declared = supported
        /\ loaded = {}
        /\ supported_languages = InitialLanguages(supported)
        /\ translations = EmptyDict
        /\ API_TRANSLATIONS = EmptyDict
        /\ users = InitialUsers
        /\ jar = EmptyDict
        /\ request = NoRequest
        /\ language = default_language
        /\ scope_path = <<>>
        /\ endpoint = "none"
        /\ response = NoResponse
        /\ mw_cookie = <<>>
        /\ sent = <<>>
        /\ pending = <<>>
        /\ call = NoCall
        /\ result = Value(<<>>)

NextTranslate ==
    \/ LoadTranslations
    \/ LoadApiTranslations
    \/ GetTranslation
    \/ TranslateApiMessage

SpecTranslate == InitTranslate /\ [][NextTranslate]_vars

-----------------------------------------------------------------------------
(* Properties of translation lookup *)

\* the catalog a call reads and the languages that catalog supports
CallTables == IF call.fn = "get_translation" THEN translations ELSE API_TRANSLATIONS

CallSupported(lang) ==
    IF call.fn = "get_translation" THEN Supported(lang)
    ELSE lang \in { SUPPORTED_LANGUAGES[i] : i \in DOMAIN SUPPORTED_LANGUAGES }

\* C9: for a supported language L and a key present in L's table, translating
\* the key in L with no parameters returns exactly the value stored in L's
\* table, also when the default language holds another value for the key.
C9_OwnTableValue ==
    ( /\ call.fn \in {"get_translation", "translate_api_message"}
      /\ call.kwargs = EmptyDict
      /\ CallSupported(call.language)
      /\ call.language \in DOMAIN CallTables
      /\ call.key \in DOMAIN CallTables[call.language] )
    => result = Value(CallTables[call.language][call.key])

\* C10: for an unsupported language U, any key and any parameters, the
\* translation in U is the translation in the default language.
C10_UnsupportedIsDefault ==
    /\ (call.fn = "get_translation" /\ ~CallSupported(call.language))
          => result = get_translation(call.key, default_language, call.kwargs)
    /\ (call.fn = "translate_api_message" /\ ~CallSupported(call.language))
          => result = translate_api_message(call.key, DEFAULT_LANGUAGE)

\* an unsupported language got the default language's text, parameters filled in
C10_Witness ==
    /\ call.fn = "get_translation"
    /\ call.language = zz
    /\ call.key = hello
    /\ call.kwargs = Dict1(<<"n">>, <<"A","l">>)
    /\ result = Value(<<"Y","o"," ","A","l">>)

\* no table of the catalog a call reads holds the key
AbsentEverywhere(key) ==
    \A l \in DOMAIN CallTables : key \notin DOMAIN CallTables[l]

\* C11: for a key absent from every language's table and any language,
\* supported or not, the translation is the key itself, unchanged, also when
\* parameters are passed.
C11_AbsentKeyIsReturned ==
    (call.fn # "none" /\ AbsentEverywhere(call.key))
        => result = Value(call.key)

\* a supported language with its own table, a key no table holds, and a
\* parameter: the key came back
C11_Witness ==
    /\ call.fn = "get_translation"
    /\ call.language = fr
    /\ fr \in DOMAIN translations
    /\ call.key = bye
    /\ call.kwargs = Dict1(<<"n">>, <<"A","l">>)
    /\ result = Value(bye)

\* the manager's table of a language holds the key
InTable(lang, key) ==
    lang \in DOMAIN translations /\ key \in DOMAIN translations[lang]

\* C12: for a supported language L other than the default and a key absent
\* from L's table, or L without any table, but present in the default
\* language's table, get_translation(key, L) returns the default language's
\* value for the key.
C12_LazyFallback ==
    ( /\ call.fn = "get_translation"
      /\ call.kwargs = EmptyDict
      /\ Supported(call.language)
      /\ call.language # default_language
      /\ ~InTable(call.language, call.key)
      /\ InTable(default_language, call.key) )
    => result = Value(translations[default_language][call.key])

\* a declared language without any table got the default language's text
C12_Witness ==
    /\ call.fn = "get_translation"
    /\ call.kwargs = EmptyDict
    /\ call.language = es
    /\ Supported(es)
    /\ es \notin DOMAIN translations
    /\ call.key = hello
    /\ result = Value(<<"H","i">>)

\* a language whose own table lacks the key got the default language's text
C12_WitnessOwnTable ==
    /\ call.fn = "get_translation"
    /\ call.kwargs = EmptyDict
    /\ call.language = fr
    /\ fr \in DOMAIN translations
    /\ call.key = hello
    /\ hello \notin DOMAIN translations[fr]
    /\ result = Value(<<"H","i">>)

\* the template get_translation resolves for a call, as a set: empty when
\* neither the language used nor the default language holds the key
ResolvedTemplate(key, lang) ==
    LET used == IF Supported(lang) THEN lang ELSE default_language IN
    IF InTable(used, key) THEN {translations[used][key]}
    ELSE IF InTable(default_language, key)
         THEN {translations[default_language][key]}
         ELSE {}

\* C13: get_translation never raises; for every key, language, parameters and
\* stored template it returns a string, and the unsubstituted template when
\* the parameters cannot be substituted.
C13_TranslateNeverRaises ==
    call.fn = "get_translation" =>
        /\ result.raised = "none"
        /\ \A t \in ResolvedTemplate(call.key, call.language) :
               (call.kwargs # EmptyDict /\ Format(t, call.kwargs).raised # "none")
                   => result = Value(t)

\* the languages the manager was declared with, and those of the API catalog
DeclaredSet ==
    { InitialLanguages(declared)[i] : i \in DOMAIN InitialLanguages(declared) }

ApiLanguages == { SUPPORTED_LANGUAGES[i] : i \in DOMAIN SUPPORTED_LANGUAGES }

\* the translation file of a language is missing or malformed
NoUsableFile(lang) ==
    lang \notin DOMAIN locales \/ locales[lang].state # "ok"

-----------------------------------------------------------------------------
(* LocalizationManager.format_datetime, datetime_utils.convert_timezone *)

de == <<"d","e">>
ja == <<"j","a">>

\* "%d/%m/%Y %H:%M"
FormatFr ==
    <<"%","d","/","%","m","/","%","Y"," ","%","H",":","%","M">>

\* "%d.%m.%Y %H:%M"
FormatDe ==
    <<"%","d",".","%","m",".","%","Y"," ","%","H",":","%","M">>

\* "%Y年%m月%d日 %H:%M", the three ideographs written by their code points
FormatJa ==
    <<"%","Y","U+5E74","%","m","U+6708","%","d","U+65E5"," ","%","H",":","%","M">>

\* "%Y-%m-%d %H:%M:%S %Z"
FormatDefault ==
    <<"%","Y","-","%","m","-","%","d"," ","%","H",":","%","M",":","%","S",
      " ","%","Z">>

\* the default pattern of a language
LanguageFormat(lang) ==
    IF lang = fr THEN FormatFr
    ELSE IF lang = de THEN FormatDe
    ELSE IF lang = ja THEN FormatJa
    ELSE FormatDefault

\* dt is None, format_str is None
NoDatetime == <<>>
NoFormat == <<>>

\* format_datetime with an aware datetime kept in its own zone when the
\* timezone is unknown
format_datetime_keep_zone(dt, lang, timezone, format_str) ==
    IF dt = NoDatetime THEN Value(<<>>)
    ELSE LET tz == pytz_timezone(timezone)
             localized_dt ==
                 IF tz.raised = "none"
                 THEN astimezone(IF dt.tzinfo.aware THEN dt ELSE utc_localize(dt),
                                 tz.value)
                 ELSE dt
         IN  IF format_str # NoFormat THEN Value(strftime(localized_dt, format_str))
             ELSE Value(strftime(localized_dt, LanguageFormat(lang)))

\* LocalizationManager.format_datetime
format_datetime(dt, lang, timezone, format_str) ==
    IF dt = NoDatetime THEN Value(<<>>)
    ELSE LET tz == pytz_timezone(timezone)
             localized_dt ==
                 IF tz.raised = "none"
                 THEN astimezone(IF dt.tzinfo.aware THEN dt ELSE utc_localize(dt),
                                 tz.value)
                 ELSE IF dt.tzinfo.aware THEN astimezone(dt, "UTC") ELSE dt
         IN  IF format_str # NoFormat THEN Value(strftime(localized_dt, format_str))
             ELSE Value(strftime(localized_dt, LanguageFormat(lang)))

\* datetime_utils.convert_timezone
convert_timezone(dt, to_timezone) ==
    LET aware == IF dt.tzinfo.aware THEN dt ELSE utc_localize(dt)
        target_tz == pytz_timezone(to_timezone)
    IN  IF target_tz.raised = "none"
        THEN Value(astimezone(aware, target_tz.value))
        ELSE Value(aware)

\* the wall-clock times passed in: the morning of 15 January and of 15 July
\* 2024, the last half hour of 2023, the first of March of a leap year
WallClocks ==
    { datetime(2024, 1, 15, 10, 0, 0, NoTzinfo),
      datetime(2024, 7, 15, 10, 0, 0, NoTzinfo),
      datetime(2023, 12, 31, 23, 30, 0, NoTzinfo),
      datetime(2024, 3, 1, 0, 15, 30, NoTzinfo) }

\* each of them naive, in UTC, and five hours behind UTC
Datetimes ==
    { [w EXCEPT !.tzinfo = z] :
        w \in WallClocks, z \in {NoTzinfo, UTC, Tzinfo(-300, <<"E","S","T">>)} }

\* the timezone strings passed in: four known identifiers, two unknown ones
TimezoneInputs ==
    {"UTC", "Europe/Paris", "America/New_York", "Asia/Kolkata", "Mars/Phobos", ""}

\* the languages passed in
FormatLanguages == {en, fr, de, ja}

\* the format_str values passed in: None and "%H:%M"
FormatStrings == { NoFormat, <<"%","H",":","%","M">> }

\* loc_manager.format_datetime(dt, language, timezone, format_str) with the
\* arguments taken from the given sets
FormatDatetimeOf(dts, langs, timezones, format_strs) ==
    \E dt \in dts, lang \in langs, timezone \in timezones,
       format_str \in format_strs :
        /\ "manager" \in loaded
        /\ call' = [fn |-> "format_datetime", dt |-> dt, language |-> lang,
                    timezone |-> timezone, format_str |-> format_str]
        /\ result' = format_datetime(dt, lang, timezone, format_str)
        /\ UNCHANGED <<catalog_vars, request_vars>>

FormatDatetime ==
    FormatDatetimeOf(Datetimes \cup {NoDatetime}, FormatLanguages,
                     TimezoneInputs, FormatStrings)

\* convert_timezone(dt, to_timezone)
ConvertTimezone ==
    \E dt \in Datetimes, timezone \in TimezoneInputs :
        /\ call' = [fn |-> "convert_timezone", dt |-> dt,
                    timezone |-> timezone]
        /\ result' = convert_timezone(dt, timezone)
        /\ UNCHANGED <<catalog_vars, request_vars>>

\* the process after startup, both catalogs loaded, before any call
InitFormat ==
    /\ locales = RequestFiles
    /\ declared = NoLanguages
    /\ loaded = {"manager", "i18n"}
    /\ supported_languages = LoadedLanguages(RequestFiles, <<en, fr, es>>, <<en>>)
    /\ translations = LoadedTranslations(RequestFiles)
    /\ API_TRANSLATIONS = LoadedApiTranslations(RequestFiles)
    /\ users = InitialUsers
    /\ jar = EmptyDict
    /\ request = NoRequest
    /\ language = default_language
    /\ scope_path = <<>>
    /\ endpoint = "none"
    /\ response = NoResponse
    /\ mw_cookie = <<>>
    /\ sent = <<>>
    /\ pending = <<>>
    /\ call = NoCall
    /\ result = Value(<<>>)

NextFormat ==
    \/ FormatDatetime
    \/ ConvertTimezone

SpecFormat == InitFormat /\ [][NextFormat]_vars

-----------------------------------------------------------------------------
(* Properties of date and time formatting *)

\* the pattern a format_datetime call formats with
CallFormat ==
    IF call.format_str # NoFormat THEN call.format_str
    ELSE LanguageFormat(call.language)

\* the UTC wall clock of the instant a datetime stands for, a naive one taken
\* as UTC
UtcWallClock(dt) ==
    [(IF dt.tzinfo.aware THEN AddMinutes(dt, 0 - dt.tzinfo.utcoffset) ELSE dt)
        EXCEPT !.tzinfo = NoTzinfo]

\* C18: for every instant, aware or naive, every language and every timezone
\* string that is no known identifier, format_datetime raises nothing and
\* returns the pattern filled with the date and time of the instant in UTC.
C18_UnknownZoneFormatsUtc ==
    ( /\ call.fn = "format_datetime"
      /\ call.dt # NoDatetime
      /\ call.timezone \notin DOMAIN ZoneRules )
    => /\ result.raised = "none"
       /\ \E z \in {NoTzinfo, UTC} :
             result.value =
                 strftime([UtcWallClock(call.dt) EXCEPT !.tzinfo = z], CallFormat)

\* an instant five hours behind UTC on New Year's Eve, an unknown timezone:
\* the German pattern shows the UTC date, already in 2024
C18_Witness ==
    /\ call.fn = "format_datetime"
    /\ call.dt = datetime(2023, 12, 31, 23, 30, 0, Tzinfo(-300, <<"E","S","T">>))
    /\ call.timezone = "Mars/Phobos"
    /\ call.language = de
    /\ call.format_str = NoFormat
    /\ result = Value(<<"0","1",".","0","1",".","2","0","2","4"," ",
                        "0","4",":","3","0">>)

\* the offset from UTC, in minutes, of a known zone at a naive time taken as UTC
OffsetAt(zone, dt) == ZoneAt(zone, dt).utcoffset

\* C19: a naive instant t is taken as UTC and shifted by the offset the target
\* zone has at t: the rendered (and the converted) wall clock is t + h.
C19_NaiveIsUtcShifted ==
    /\ ( /\ call.fn = "format_datetime"
         /\ call.dt # NoDatetime
         /\ ~call.dt.tzinfo.aware
         /\ call.timezone \in DOMAIN ZoneRules )
       => result =
            Value(strftime(
                [AddMinutes(call.dt, OffsetAt(call.timezone, call.dt))
                    EXCEPT !.tzinfo = ZoneAt(call.timezone, call.dt)],
                CallFormat))
    /\ ( /\ call.fn = "convert_timezone"
         /\ ~call.dt.tzinfo.aware
         /\ call.timezone \in DOMAIN ZoneRules )
       => /\ result.raised = "none"
          /\ [result.value EXCEPT !.tzinfo = NoTzinfo]
               = AddMinutes(call.dt, OffsetAt(call.timezone, call.dt))

\* the example of the specification: 2024-01-15T10:00:00, Europe/Paris, fr
C19_Witness ==
    /\ call.fn = "format_datetime"
    /\ call.dt = datetime(2024, 1, 15, 10, 0, 0, NoTzinfo)
    /\ call.timezone = "Europe/Paris"
    /\ call.language = fr
    /\ call.format_str = NoFormat
    /\ result = Value(<<"1","5","/","0","1","/","2","0","2","4"," ",
                        "1","1",":","0","0">>)

-----------------------------------------------------------------------------
(* The catalog in use: resolutions, lookups, formatting and listings mixed *)

\* the list handed out with its last language removed by the caller
ListSupportedLanguagesPop ==
    /\ "manager" \in loaded
    /\ call' = [fn |-> "list_supported_languages"]
    /\ result' = Value(supported_languages)
    /\ supported_languages' =
           SubSeq(supported_languages, 1, Len(supported_languages) - 1)
    /\ UNCHANGED <<translations, API_TRANSLATIONS, locales, declared, loaded,
                   request_vars>>

\* loc_manager.list_supported_languages(), as get_supported_languages calls
\* it: the list is read, not changed
ListSupportedLanguages ==
    /\ "manager" \in loaded
    /\ call' = [fn |-> "list_supported_languages"]
    /\ result' = Value(supported_languages)
    /\ UNCHANGED <<catalog_vars, request_vars>>

\* i18n.get_available_languages(): the codes of SUPPORTED_LANGUAGES
GetAvailableLanguages ==
    /\ "i18n" \in loaded
    /\ call' = [fn |-> "get_available_languages"]
    /\ result' = Value(SUPPORTED_LANGUAGES)
    /\ UNCHANGED <<catalog_vars, request_vars>>

\* a request whose language is resolved by dispatch: with or without a
\* language prefix, with the cookies the client holds
ResolveLanguage ==
    \E p \in {ROUTE_USERS, <<"/","f","r">> \o ROUTE_USERS, <<"/","z","z">> \o ROUTE_USERS},
       q \in {EmptyDict, Dict1("lang", es)} :
        Dispatch(Request(p, q, EmptyDict, jar, NoToken, EmptyDict))

\* format_datetime as a page would call it: the example instant, a known and
\* an unknown timezone
FormatDatetimeExample ==
    FormatDatetimeOf({datetime(2024, 1, 15, 10, 0, 0, NoTzinfo)}, {en, fr},
                     {"Europe/Paris", "Mars/Phobos"}, {NoFormat})

NextCatalog ==
    \/ ResolveLanguage
    \/ GetTranslation
    \/ TranslateApiMessage
    \/ FormatDatetimeExample
    \/ ListSupportedLanguages
    \/ GetAvailableLanguages

SpecCatalog == InitFormat /\ [][NextCatalog]_vars

\* what the call made last returns when it is made again now
Recomputed ==
    CASE call.fn = "get_translation" ->
           get_translation(call.key, call.language, call.kwargs)
      [] call.fn = "translate_api_message" ->
           translate_api_message(call.key, call.language)
      [] call.fn = "format_datetime" ->
           format_datetime(call.dt, call.language, call.timezone, call.format_str)
      [] call.fn = "convert_timezone" ->
           convert_timezone(call.dt, call.timezone)
      [] call.fn = "list_supported_languages" -> Value(supported_languages)
      [] call.fn = "get_available_languages" -> Value(SUPPORTED_LANGUAGES)
      [] OTHER -> result

\* C14: after load no language resolution, translate call, format_datetime
\* call or language-list query changes the supported languages or a
\* translation table, and the call made last, made again with the same
\* arguments after any of them, returns what it returned.
C14_CatalogReadOnly ==
    [][ /\ UNCHANGED <<supported_languages, translations, API_TRANSLATIONS>>
        /\ call' = call => result' = Recomputed' ]_vars

\* a translate call answered, then a request resolved to another language
\* and the list queried in between: the call, made again, answers the same
C14_Witness ==
    /\ call.fn = "get_translation"
    /\ call.language = fr
    /\ call.key = hello
    /\ result = Value(<<"H","i">>)
    /\ language = es
    /\ endpoint # "none"
    /\ "preferred_language" \in DOMAIN jar

-----------------------------------------------------------------------------
(* Properties of the preference endpoints *)

\* the request handled last came with the token of the stored user
Authenticated == request.token = UserToken

\* the timezone a timezone request submitted, and the field of the user row
\* its handler stores it in
SubmittedTimezone ==
    IF endpoint = "update_timezone_preference" THEN request.body["timezone"]
    ELSE request.query_params["timezone"]

StoredTimezone ==
    IF endpoint = "update_timezone_preference" THEN users[UserEmail].timezone
    ELSE users[UserEmail].preferred_timezone

\* C16: a timezone-preference request of the user stores the submitted
\* identifier exactly when the timezone database knows it, in the curated
\* list or not; an unknown identifier is refused without an exception
\* escaping and without the stored timezone changing.
C16_TimezoneStoredIffValid ==
    ( /\ endpoint \in {"update_timezone_preference", "set_timezone_preference"}
      /\ Authenticated )
    => IF SubmittedTimezone \in DOMAIN ZoneRules
       THEN StoredTimezone = SubmittedTimezone
       ELSE /\ response.status # 500
            /\ StoredTimezone # SubmittedTimezone

\* the language a language request submitted
SubmittedLanguage ==
    IF endpoint = "update_language_preference" THEN request.body["language"]
    ELSE request.query_params["language_code"]

\* the catalog the handler checks the language against does not support it
RefusedLanguage ==
    IF endpoint = "update_language_preference"
    THEN ~Supported(SubmittedLanguage)
    ELSE SubmittedLanguage \notin ApiLanguages

\* C17: a language-preference request of the user with an unsupported code is
\* answered 400; the stored preferred_language is not the refused code and no
\* Set-Cookie of the response carries it.
C17_UnsupportedLanguageRejected ==
    ( /\ endpoint \in {"update_language_preference", "set_language_preference"}
      /\ Authenticated
      /\ RefusedLanguage )
    => /\ response.status = 400
       /\ users[UserEmail].preferred_language # SubmittedLanguage
       /\ \A i \in DOMAIN response.set_cookie :
             response.set_cookie[i].key = "preferred_language"
                 => response.set_cookie[i].value # SubmittedLanguage

-----------------------------------------------------------------------------
(* EmailService *)

\* dict.get(key, default)
Get(d, key, default) == IF key \in DOMAIN d THEN d[key] ELSE default

\* EmailService.email_type_mapping: email type -> subject key
email_type_mapping ==
    [ t \in {"email_verification",
              "password_reset",
              "account_locked",
              "welcome",
              "account_update",
              "subscription"} |->
        CASE t = "email_verification" ->
               <<"e","m","a","i","l","_","v","e","r","i","f","i","c","a","t","i","o","n","_","s","u","b","j","e","c","t">>
          [] t = "password_reset" ->
               <<"p","a","s","s","w","o","r","d","_","r","e","s","e","t","_","s","u","b","j","e","c","t">>
          [] t = "account_locked" ->
               <<"a","c","c","o","u","n","t","_","l","o","c","k","e","d","_","s","u","b","j","e","c","t">>
          [] t = "welcome" ->
               <<"w","e","l","c","o","m","e","_","s","u","b","j","e","c","t">>
          [] t = "account_update" ->
               <<"a","c","c","o","u","n","t","_","u","p","d","a","t","e","_","s","u","b","j","e","c","t">>
          [] t = "subscription" ->
               <<"s","u","b","s","c","r","i","p","t","i","o","n","_","s","u","b","j","e","c","t">> ]

\* the methods of LocalizationManager
LocalizationManagerMethods ==
    { "get_translation", "is_supported_language", "list_supported_languages",
      "format_datetime" }

\* self.localization_manager.<method>(key, language) on the manager that
\* get_localization_manager returns: a name the class does not define is an
\* AttributeError
localization_manager_call(method, key, lang) ==
    IF method \notin LocalizationManagerMethods THEN Raise("AttributeError")
    ELSE get_translation(key, lang, EmptyDict)

\* what an email call leaves behind: its result and the mails handed to SMTP
Outcome(res, mails) == [result |-> res, sent |-> mails]

\* TemplateManager.render_template: the rendered body, standing for the
\* template and the variables it was rendered with
render_template(template_path, template_vars) ==
    Value([template |-> template_path, vars |-> template_vars])

\* SMTPClient.send_email: the mail goes out and the call answers True
smtp_send_email(recipient, subject, body) ==
    Outcome(Value(TRUE),
            <<[recipient |-> recipient, subject |-> subject, body |-> body]>>)

\* EmailService._prepare_email_content, as far as its first localized text
_prepare_email_content(email_type, user_data, lang) ==
    LET greeting == localization_manager_call("get_localized_text",
                        <<"e","m","a","i","l","_","g","r","e","e","t","i","n","g">>,
                        lang)
    IN  IF greeting.raised # "none" THEN greeting
        ELSE render_template(email_type, greeting.value)

\* EmailService.send_user_email
send_user_email(user_data, email_type) ==
    IF ~Truthy(user_data, "email") THEN Outcome(Raise("ValueError"), <<>>)
    ELSE LET lang == Get(user_data, "preferred_language", default_language) IN
         IF email_type \notin DOMAIN email_type_mapping
         THEN Outcome(Raise("ValueError"), <<>>)
         ELSE LET subject_key == email_type_mapping[email_type]
                  subject == localization_manager_call("get_localized_text",
                                                       subject_key, lang)
              IN  IF subject.raised # "none" THEN Outcome(subject, <<>>)
                  ELSE LET email_content ==
                               _prepare_email_content(email_type, user_data, lang)
                       IN  IF email_content.raised # "none"
                           THEN Outcome(email_content, <<>>)
                           ELSE smtp_send_email(user_data["email"], subject.value,
                                                email_content.value)

\* EmailService.send_verification_email; user holds the attributes of the
\* User object. Of the user_data it builds, the entries send_user_email reads
\* are kept (id and verification_url only reach the template)
send_verification_email(user) ==
    IF ~Truthy(user, "email") THEN Outcome(Value(FALSE), <<>>)
    ELSE IF ~Truthy(user, "verification_token") THEN Outcome(Value(FALSE), <<>>)
    ELSE send_user_email(
             [k \in {"email", "nickname", "verification_token",
                     "preferred_language"} |->
                 IF k = "nickname" THEN Get(user, k, <<>>)
                 ELSE IF k = "preferred_language"
                      THEN Get(user, k, default_language)
                      ELSE user[k]],
             "email_verification")

\* the address and the token of the user written to
MailAddress == <<"a","@","b">>
VerificationToken == <<"t","o","k">>

\* an attribute or entry that may be absent, one value of vs per key
Optional(key, vs) == {EmptyDict} \cup { Dict1(key, v) : v \in vs }

\* the user_data passed to send_user_email: with an email, an empty one or
\* none; with a preferred_language, supported or not, or none
UserDatas ==
    { Merge(e, l) : e \in Optional("email", {<<>>, MailAddress}),
                    l \in Optional("preferred_language", {en, fr, es, zz}) }

\* the email types passed: those of the mapping and one it does not hold
EmailTypes == DOMAIN email_type_mapping \cup {"newsletter"}

\* the User objects passed to send_verification_email
VerificationUsers ==
    { Merge(Merge(e, t), l) :
        e \in Optional("email", {<<>>, MailAddress}),
        t \in Optional("verification_token", {<<>>, VerificationToken}),
        l \in Optional("preferred_language", {en, fr, zz}) }

\* await email_service.send_user_email(user_data, email_type)
SendUserEmail ==
    \E user_data \in UserDatas, email_type \in EmailTypes :
        LET out == send_user_email(user_data, email_type) IN
        /\ "manager" \in loaded
        /\ call' = [fn |-> "send_user_email", user_data |-> user_data,
                    email_type |-> email_type]
        /\ result' = out.result
        /\ sent' = out.sent
        /\ UNCHANGED <<catalog_vars, users, jar, request, language, scope_path,
                       endpoint, response, mw_cookie, pending>>

\* await email_service.send_verification_email(user)
SendVerificationEmail ==
    \E user \in VerificationUsers :
        LET out == send_verification_email(user) IN
        /\ "manager" \in loaded
        /\ call' = [fn |-> "send_verification_email", user_data |-> user,
                    email_type |-> "email_verification"]
        /\ result' = out.result
        /\ sent' = out.sent
        /\ UNCHANGED <<catalog_vars, users, jar, request, language, scope_path,
                       endpoint, response, mw_cookie, pending>>

NextEmail ==
    \/ SendUserEmail
    \/ SendVerificationEmail

SpecEmail == InitFormat /\ [][NextEmail]_vars

\* the language an email call is to localize with
RecipientLanguage == Get(call.user_data, "preferred_language", default_language)

\* C20: send_user_email, given an email and a valid email type, and
\* send_verification_email, given a user with an email and a token, send one
\* mail, to the address given, with the subject the manager holds for the
\* subject key in the recipient's preferred_language, or in the default
\* language when there is none.
C20_EmailInRecipientLanguage ==
    ( /\ call.fn \in {"send_user_email", "send_verification_email"}
      /\ Truthy(call.user_data, "email")
      /\ call.email_type \in DOMAIN email_type_mapping
      /\ call.fn = "send_verification_email"
            => Truthy(call.user_data, "verification_token") )
    => /\ result.raised = "none"
       /\ Len(sent) = 1
       /\ sent[1].recipient = call.user_data["email"]
       /\ Value(sent[1].subject) =
             get_translation(email_type_mapping[call.email_type],
                             RecipientLanguage, EmptyDict)

-----------------------------------------------------------------------------
(* User accounts: the UserService of tests/test_services/test_user_service.py *)
(* and the authenticate of tests/test_api/test_users_api.py.  In these       *)
(* specifications users maps a user's id to the stored row.                   *)

\* Python's None next to a value
None == [none |-> TRUE, value |-> <<>>]

Some(value) == [none |-> FALSE, value |-> value]

\* Settings.max_login_attempts
max_login_attempts == 3

\* the literal authenticate compares the counter with
authenticate_max_attempts == 5

\* uuid.uuid4(), str(uuid): the n-th identifier drawn and its text
uuid4(n) == n

str_uuid(n) == <<"u", Digit(n)>>

\* UUID(text): the identifier a text denotes, ValueError for any other text
UUID(text) ==
    IF /\ Len(text) = 2
       /\ text[1] = "u"
       /\ \E n \in 1..9 : Digit(n) = text[2]
    THEN Value(CHOOSE n \in 1..9 : Digit(n) = text[2])
    ELSE Raise("ValueError")

\* a user_id argument: a UUID object or a string
AsUuid(n) == [str |-> FALSE, uuid |-> n, text |-> <<>>]

AsStr(text) == [str |-> TRUE, uuid |-> 0, text |-> text]

\* the isinstance(user_id, str) conversion that opens every operation by id
ToUuid(user_id) == IF user_id.str THEN UUID(user_id.text) ELSE Value(user_id.uuid)

\* security.hash_password, security.verify_password
hash_password(password) == <<"#">> \o password

verify_password(password, hashed_password) ==
    hash_password(password) = hashed_password

\* the columns of User a caller need not give, at their defaults
UserDefaults ==
    [is_verified |-> FALSE, email_verified |-> FALSE,
     verification_token |-> None, is_locked |-> FALSE,
     failed_login_attempts |-> 0, preferred_language |-> en,
     preferred_timezone |-> "UTC"]

\* User(**fields): a row with the columns the services read
User(fields) == Merge(UserDefaults, fields)

\* select(User).where(User.email == email) ... scalars().first()
first_by_email(db, email) ==
    LET ids == { i \in DOMAIN db : db[i].email = email } IN
    IF ids = {} THEN None
    ELSE Some(db[CHOOSE i \in ids : \A j \in ids : i <= j])

\* select(User).where(User.id == user_id) ... scalars().first()
first_by_id(db, uuid) == IF uuid \in DOMAIN db THEN Some(db[uuid]) ELSE None

\* what an operation leaves: the table and what it returned
Done(db, value) == [users |-> db, result |-> Value(value)]

\* db.add(user); db.commit(); db.refresh(user)
add_user(db, user) == [i \in DOMAIN db \cup {user.id} |->
                          IF i = user.id THEN user ELSE db[i]]

\* "@" in email
Contains(s, c) == \E i \in DOMAIN s : s[i] = c

\* the email_service argument of test_user_service.create
NoEmailService == "None"

\* test_user_service.UserService.create: user_data holds email and password.
\* With an email service, send_verification_email is called with three
\* arguments, EmailService's takes the user alone: the TypeError is caught
\* after the commit and the call returns None.
test_user_service_create(db, user_data, email_service) ==
    IF ~first_by_email(db, user_data["email"]).none THEN Done(db, None)
    ELSE IF ~Truthy(user_data, "email") \/ ~Contains(user_data["email"], "@")
         THEN Done(db, None)
    ELSE IF ~Truthy(user_data, "password") \/ Len(user_data["password"]) < 8
         THEN Done(db, None)
    ELSE LET n == Cardinality(DOMAIN db) + 1
             db_user == User([id |-> uuid4(n), email |-> user_data["email"],
                              hashed_password |->
                                  hash_password(user_data["password"]),
                              role |-> "AUTHENTICATED", is_verified |-> FALSE,
                              verification_token |->
                                  Some(<<"t">> \o str_uuid(n))])
             stored == add_user(db, db_user)
         IN  IF email_service # NoEmailService THEN Done(stored, None)
             ELSE Done(stored, Some(db_user))

\* the wrong-password branch shared by login_user and authenticate
WrongPassword(db, user, max_attempts) ==
    LET attempts == user.failed_login_attempts + 1 IN
    [db EXCEPT ![user.id].failed_login_attempts = attempts,
               ![user.id].is_locked =
                   IF attempts >= max_attempts THEN TRUE ELSE user.is_locked]

\* the successful branch: the counter is reset when it is not zero
ResetAttemptsNever(db, user) == db

ResetAttempts(db, user) ==
    IF user.failed_login_attempts # 0
    THEN [db EXCEPT ![user.id].failed_login_attempts = 0]
    ELSE db

\* test_user_service.UserService.login_user
login_user_unverified(db, email, password) ==
    LET found == first_by_email(db, email)
        user  == found.value
    IN  IF found.none THEN Done(db, None)
        ELSE IF user.is_locked THEN Done(db, None)
        ELSE IF ~verify_password(password, user.hashed_password)
             THEN Done(WrongPassword(db, user, max_login_attempts), None)
        ELSE LET reset == ResetAttempts(db, user) IN
             Done(reset, Some(reset[user.id]))

login_user_locked(db, email, password) ==
    LET found == first_by_email(db, email)
        user  == found.value
    IN  IF found.none THEN Done(db, None)
        ELSE IF ~user.is_verified THEN Done(db, None)
        ELSE IF ~verify_password(password, user.hashed_password)
             THEN Done(WrongPassword(db, user, max_login_attempts), None)
        ELSE LET reset == ResetAttempts(db, user) IN
             Done(reset, Some(reset[user.id]))

login_user(db, email, password) ==
    LET found == first_by_email(db, email)
        user  == found.value
    IN  IF found.none THEN Done(db, None)
        ELSE IF user.is_locked THEN Done(db, None)
        ELSE IF ~user.is_verified THEN Done(db, None)
        ELSE IF ~verify_password(password, user.hashed_password)
             THEN Done(WrongPassword(db, user, max_login_attempts), None)
        ELSE LET reset == ResetAttempts(db, user) IN
             Done(reset, Some(reset[user.id]))

\* test_users_api.UserService.authenticate
authenticate(db, email, password) ==
    LET found == first_by_email(db, email)
        user  == found.value
    IN  IF found.none THEN Done(db, None)
        ELSE IF user.is_locked THEN Done(db, None)
        ELSE IF ~verify_password(password, user.hashed_password)
             THEN Done(WrongPassword(db, user, authenticate_max_attempts), None)
        ELSE LET reset == ResetAttempts(db, user) IN
             Done(reset, IF user.is_verified THEN Some(reset[user.id]) ELSE None)

\* test_user_service.UserService.verify_email_with_token
verify_email_with_token_keep(db, user_id, token) ==
    LET uuid  == ToUuid(user_id)
        found == first_by_id(db, uuid.value)
    IN  IF uuid.raised # "none" THEN Done(db, FALSE)
        ELSE IF found.none \/ found.value.verification_token # Some(token)
             THEN Done(db, FALSE)
        ELSE Done([db EXCEPT ![uuid.value].is_verified = TRUE], TRUE)

verify_email_with_token(db, user_id, token) ==
    LET uuid  == ToUuid(user_id)
        found == first_by_id(db, uuid.value)
    IN  IF uuid.raised # "none" THEN Done(db, FALSE)
        ELSE IF found.none \/ found.value.verification_token # Some(token)
             THEN Done(db, FALSE)
        ELSE Done([db EXCEPT ![uuid.value].is_verified = TRUE,
                             ![uuid.value].verification_token = None], TRUE)

\* test_user_service.UserService.unlock_user_account
unlock_user_account(db, user_id) ==
    LET uuid == ToUuid(user_id) IN
    IF uuid.raised # "none" THEN Done(db, FALSE)
    ELSE IF first_by_id(db, uuid.value).none THEN Done(db, FALSE)
    ELSE Done([db EXCEPT ![uuid.value].is_locked = FALSE,
                         ![uuid.value].failed_login_attempts = 0], TRUE)

-----------------------------------------------------------------------------
(* Calls to the account operations *)

AccountEmails == { <<"a","@","x",".","y">>, <<"b","@","x",".","y">> }

\* a valid password, another one, one too short to register with
Secret == <<"S","e","c","u","r","e","*","1">>

Guess == <<"S","e","c","u","r","e","*","2">>

\* the users a client can name: the two that can exist, one that cannot, as
\* UUID or as text, and a text that is no UUID
UserIdInputs ==
    { AsUuid(n) : n \in 1..3 } \cup { AsStr(str_uuid(1)), AsStr(<<"m","e">>) }

\* the tokens issued to the two users, and the empty string
TokenInputs == { <<"t">> \o str_uuid(n) : n \in 1..2 } \cup { <<>> }

\* the account operations change the table only
account_frame ==
    <<catalog_vars, jar, request, language, scope_path, endpoint, response,
      mw_cookie, sent, pending>>

\* one call: what was asked, the table as it was before the call, what the
\* call returned and the table it left
AccountCall(fn, args, out) ==
    /\ call' = [fn |-> fn, args |-> args, before |-> users]
    /\ result' = out.result
    /\ users' = out.users
    /\ UNCHANGED account_frame

CreateAccount ==
    \E email \in AccountEmails \cup { <<"a","x">> },
       password \in {Secret, <<"p","w">>},
       email_service \in {NoEmailService, "EmailService"} :
        LET user_data == [email |-> email, password |-> password] IN
        AccountCall("create", user_data,
                    test_user_service_create(users, user_data, email_service))

LoginUser ==
    \E email \in AccountEmails, password \in {Secret, Guess} :
        AccountCall("login_user", [email |-> email, password |-> password],
                    login_user(users, email, password))

Authenticate ==
    \E email \in AccountEmails, password \in {Secret, Guess} :
        AccountCall("authenticate", [email |-> email, password |-> password],
                    authenticate(users, email, password))

VerifyEmailWithToken ==
    \E user_id \in UserIdInputs, token \in TokenInputs :
        AccountCall("verify_email_with_token",
                    [user_id |-> user_id, token |-> token],
                    verify_email_with_token(users, user_id, token))

UnlockUserAccount ==
    \E user_id \in UserIdInputs :
        AccountCall("unlock_user_account", [user_id |-> user_id],
                    unlock_user_account(users, user_id))

\* an empty users table; the catalogs are loaded
InitAccounts ==
    /\ supported_languages = LoadedLanguages(RequestFiles, <<en, fr, es>>, <<en>>)
    /\ translations = LoadedTranslations(RequestFiles)
    /\ API_TRANSLATIONS = LoadedApiTranslations(RequestFiles)
    /\ locales = RequestFiles
    /\ declared = NoLanguages
    /\ loaded = {"manager", "i18n"}
    /\ users = EmptyDict
    /\ jar = EmptyDict
    /\ request = NoRequest
    /\ language = default_language
    /\ scope_path = <<>>
    /\ endpoint = "none"
    /\ response = NoResponse
    /\ mw_cookie = <<>>
    /\ sent = <<>>
    /\ pending = <<>>
    /\ call = NoCall
    /\ result = Value(<<>>)

NextAccounts ==
    \/ CreateAccount
    \/ LoginUser
    \/ Authenticate
    \/ VerifyEmailWithToken
    \/ UnlockUserAccount

SpecAccounts == InitAccounts /\ [][NextAccounts]_vars

-----------------------------------------------------------------------------
(* Properties of login, lockout and verification *)

LoginCall == call.fn \in {"login_user", "authenticate"}

\* the user a login call names, as stored before the call
LoginUserBefore == first_by_email(call.before, call.args.email)

\* that user after the call
LoginUserAfter == users[LoginUserBefore.value.id]

PasswordMatches ==
    verify_password(call.args.password, LoginUserBefore.value.hashed_password)

\* C21: for a verified, unlocked user a login attempt with a wrong password
\* adds one to failed_login_attempts; the attempt that brings the counter to
\* max_login_attempts locks the account, and the account is not locked while
\* the counter is below it.
C21_LockoutAtMaximum ==
    ( /\ LoginCall
      /\ ~LoginUserBefore.none
      /\ LoginUserBefore.value.is_verified
      /\ ~LoginUserBefore.value.is_locked
      /\ ~PasswordMatches )
    => /\ LoginUserAfter.failed_login_attempts =
              LoginUserBefore.value.failed_login_attempts + 1
       /\ LoginUserAfter.failed_login_attempts = max_login_attempts
              => LoginUserAfter.is_locked
       /\ LoginUserAfter.failed_login_attempts < max_login_attempts
              => ~LoginUserAfter.is_locked

\* the call is an operation by id on a stored user
ById ==
    /\ call.fn \in {"verify_email_with_token", "unlock_user_account"}
    /\ ToUuid(call.args.user_id).raised = "none"
    /\ ToUuid(call.args.user_id).value \in DOMAIN call.before

ByIdBefore == call.before[ToUuid(call.args.user_id).value]

ByIdAfter == users[ToUuid(call.args.user_id).value]

C23_SuccessResetsCounter ==
    ( /\ LoginCall
      /\ result.value # None )
    => /\ LoginUserAfter.failed_login_attempts = 0
       /\ result.value.value.failed_login_attempts = 0
       /\ ~LoginUserAfter.is_locked

\* a successful login after wrong passwords
C23_Witness ==
    /\ LoginCall
    /\ result.value # None
    /\ LoginUserBefore.value.failed_login_attempts = max_login_attempts - 1

\* C24: login_user and authenticate return a user only if the user is
\* verified at that moment; for an unverified user they return no user,
\* whatever the password.
C24_OnlyVerifiedLogIn ==
    /\ ( /\ LoginCall
         /\ result.value # None )
       => /\ LoginUserBefore.value.is_verified
          /\ LoginUserAfter.is_verified
          /\ result.value.value.is_verified
    /\ ( /\ LoginCall
         /\ ~LoginUserBefore.none
         /\ ~LoginUserBefore.value.is_verified )
       => result.value = None

\* an unverified user logs in with the right password, in vain
C24_Witness ==
    /\ LoginCall
    /\ ~LoginUserBefore.none
    /\ ~LoginUserBefore.value.is_verified
    /\ ~LoginUserBefore.value.is_locked
    /\ PasswordMatches
    /\ result.value = None

\* the token create stored for the user with that id
IssuedToken(id) == <<"t">> \o str_uuid(id)

\* C25: verify_email_with_token returns True, and marks the user verified,
\* only when the token given is the one stored for that user at creation;
\* it then clears the stored token, and every later call for that user
\* returns False; a call that returns False changes nothing.
C25_VerificationTokenSingleUse ==
    call.fn = "verify_email_with_token"
    => /\ result.value = TRUE
          => /\ ById
             /\ ByIdBefore.verification_token = Some(call.args.token)
             /\ call.args.token = IssuedToken(ByIdBefore.id)
             /\ ByIdAfter.is_verified
             /\ ByIdAfter.verification_token = None
       /\ result.value = FALSE => users = call.before
       /\ (ById /\ ByIdBefore.verification_token = None)
          => result.value = FALSE
       /\ (ById /\ ByIdBefore.verification_token = Some(call.args.token))
          => result.value = TRUE

\* the issued token is presented a second time
C25_Witness ==
    /\ call.fn = "verify_email_with_token"
    /\ ById
    /\ ByIdBefore.is_verified
    /\ ByIdBefore.verification_token = None
    /\ call.args.token = IssuedToken(ByIdBefore.id)
    /\ result.value = FALSE

-----------------------------------------------------------------------------
(* Registration: UserService.create of app/services/user_service.py, next to  *)
(* the create of the two other services, one step per await                   *)

\* regex class [A-Z]
IsUpperAZ(c) == \E i \in DOMAIN UpperLetters : UpperLetters[i] = c

\* user_schemas.validate_language_code: ^[a-z]{2}(-[A-Z]{2})?$
validate_language_code(lang_code) ==
    \/ /\ Len(lang_code) = 2
       /\ IsLowerAZ(lang_code[1]) /\ IsLowerAZ(lang_code[2])
    \/ /\ Len(lang_code) = 5
       /\ IsLowerAZ(lang_code[1]) /\ IsLowerAZ(lang_code[2])
       /\ lang_code[3] = "-"
       /\ IsUpperAZ(lang_code[4]) /\ IsUpperAZ(lang_code[5])

\* pydantic's EmailStr, as far as the shape local@domain.tld
EmailStr(email) ==
    \E i \in DOMAIN email :
        /\ email[i] = "@"
        /\ i > 1
        /\ \A j \in DOMAIN email : email[j] = "@" => j = i
        /\ \E j \in (i + 2)..(Len(email) - 1) : email[j] = "."

\* the names of UserRole
UserRoles == {"ANONYMOUS", "AUTHENTICATED", "MANAGER", "ADMIN"}

\* UserCreate(**user_data).model_dump(): the validated fields, the optional
\* preferences at their defaults, or ValidationError
UserCreate(user_data) ==
    IF \/ "email" \notin DOMAIN user_data
       \/ "password" \notin DOMAIN user_data
       \/ "role" \notin DOMAIN user_data
    THEN Raise("ValidationError")
    ELSE IF \/ ~EmailStr(user_data["email"])
            \/ user_data["role"] \notin UserRoles
            \/ /\ "preferred_language" \in DOMAIN user_data
               /\ ~validate_language_code(user_data["preferred_language"])
         THEN Raise("ValidationError")
         ELSE Value(Merge([preferred_language |-> en, preferred_timezone |-> "UTC"],
                          user_data))

\* UserService.count
count(db) == Cardinality(DOMAIN db)

\* the role create gives: ADMIN to the first user, ANONYMOUS to the others
RoleFor(user_count) == IF user_count = 0 THEN "ADMIN" ELSE "ANONYMOUS"

\* session.add(new_user); await session.commit(): the row is stored under a
\* new id, or the table's unique email refuses it (IntegrityError)
commit(db, fields) ==
    IF ~first_by_email(db, fields.email).none
    THEN [raised |-> "IntegrityError", users |-> db, user |-> None]
    ELSE LET new_user == User(Merge(fields, [id |-> uuid4(count(db) + 1)])) IN
         [raised |-> "none", users |-> add_user(db, new_user),
          user |-> Some(new_user)]

\* the attributes of a stored user that send_verification_email reads
Attributes(user) ==
    LET kept == [k \in {"email", "preferred_language"} |-> user[k]] IN
    IF user.verification_token.none THEN kept
    ELSE Merge(kept, [verification_token |-> user.verification_token.value])

\* what create raises for an email that is taken
EmailExists == "ValueError: Email already exists"

\* a create call that went to sleep at an await: whose create it is, the
\* fields it holds, where it resumes
Awaiting(service, fields, pc) == [service |-> service, fields |-> fields, pc |-> pc]

\* a create call that is over
Over(res) == [over |-> TRUE, result |-> res, entry |-> <<>>]

Sleeps(entry) == [over |-> FALSE, result |-> Value(None), entry |-> entry]

\* create up to the answer of its first query, the one for the email
create_check(service, db, user_data) ==
    LET taken == /\ "email" \in DOMAIN user_data
                 /\ ~first_by_email(db, user_data["email"]).none
    IN
    IF service = "app.services.user_service"
    THEN LET validated_data == UserCreate(user_data) IN
         IF validated_data.raised # "none" THEN Over(Value(None))
         ELSE IF taken THEN Over(Raise(EmailExists))
         ELSE Sleeps(Awaiting(service,
                 [k \in {"email", "preferred_language", "preferred_timezone"} |->
                     validated_data.value[k]]
                 @@ [hashed_password |->
                        hash_password(validated_data.value["password"])],
                 "count"))
    ELSE IF service = "tests.test_services.test_user_service"
    THEN IF taken THEN Over(Value(None))
         ELSE IF ~Truthy(user_data, "email") \/ ~Contains(user_data["email"], "@")
              THEN Over(Value(None))
         ELSE IF ~Truthy(user_data, "password") \/ Len(user_data["password"]) < 8
              THEN Over(Value(None))
         ELSE Sleeps(Awaiting(service,
                 [email |-> user_data["email"],
                  hashed_password |-> hash_password(user_data["password"]),
                  role |-> "AUTHENTICATED", is_verified |-> FALSE,
                  verification_token |-> Some(VerificationToken)],
                 "commit"))
    ELSE IF taken THEN Over(Raise(EmailExists))
         ELSE Sleeps(Awaiting(service,
                 [email |-> user_data["email"],
                  hashed_password |-> hash_password(user_data["password"]),
                  role |-> Get(user_data, "role", "AUTHENTICATED")],
                 "commit"))

\* app create from the user count to the commit: the role, and with it the
\* verified flag or a verification token
create_count(entry, user_count) ==
    LET role == RoleFor(user_count) IN
    Awaiting(entry.service,
             entry.fields @@
               (IF role = "ADMIN"
                THEN [role |-> role, email_verified |-> TRUE]
                ELSE [role |-> role,
                      verification_token |-> Some(VerificationToken)]),
             "commit")

\* what each create makes of an IntegrityError at its commit
create_refused(service) ==
    IF service = "tests.test_api.test_users_api"
    THEN Raise("IntegrityError")
    ELSE Value(None)

-----------------------------------------------------------------------------
(* Concurrent create calls *)

CreateServices ==
    {"app.services.user_service", "tests.test_services.test_user_service",
     "tests.test_api.test_users_api"}

\* a registration for either address; one that validation refuses
CreateInputs ==
    { [email |-> email, password |-> Secret, role |-> "ANONYMOUS"] :
         email \in AccountEmails }
    \cup { [email |-> <<"a","x">>, password |-> Secret, role |-> "ANONYMOUS"] }

\* pending without its i-th call
Without(i) == SubSeq(pending, 1, i - 1) \o SubSeq(pending, i + 1, Len(pending))

create_frame ==
    <<catalog_vars, jar, request, language, scope_path, endpoint, response,
      mw_cookie>>

\* a create call returns or raises: what it was called with, whether it
\* stored a user, the mails it sent
Finish(service, email, added, res, db, mails, left) ==
    /\ call' = [fn |-> "create", service |-> service, email |-> email,
                added |-> added]
    /\ result' = res
    /\ users' = db
    /\ sent' = mails
    /\ pending' = left
    /\ UNCHANGED create_frame

\* a create call starts and runs to the answer of its email query; the
\* create of test_users_api is handed a UserCreate, the others a dict
CreateStartOf(services, inputs, max_calls) ==
    \E service \in services, user_data \in inputs :
        LET out == create_check(service, users, user_data) IN
        /\ Len(pending) < max_calls
        /\ service = "tests.test_api.test_users_api"
               => UserCreate(user_data).raised = "none"
        /\ IF out.over
           THEN Finish(service, user_data["email"], FALSE, out.result, users,
                       <<>>, pending)
           ELSE /\ pending' = Append(pending, out.entry)
                /\ UNCHANGED <<create_frame, users, sent, call, result>>

CreateStart == CreateStartOf(CreateServices, CreateInputs, MaxCalls)

\* app create gets the user count and decides the role
CreateCount ==
    \E i \in DOMAIN pending :
        /\ pending[i].pc = "count"
        /\ pending' = [pending EXCEPT ![i] = create_count(@, count(users))]
        /\ UNCHANGED <<create_frame, users, sent, call, result>>

\* a create call commits its user; app create goes on to the verification
\* mail for a user that is not verified
CreateCommit ==
    \E i \in DOMAIN pending :
        LET entry == pending[i]
            out   == commit(users, entry.fields)
        IN
        /\ entry.pc = "commit"
        /\ IF out.raised # "none"
           THEN Finish(entry.service, entry.fields.email, FALSE,
                       create_refused(entry.service), users, <<>>, Without(i))
           ELSE IF /\ entry.service = "app.services.user_service"
                   /\ ~out.user.value.email_verified
                THEN /\ pending' = [pending EXCEPT ![i] =
                                       Awaiting(entry.service, out.user.value, "send")]
                     /\ users' = out.users
                     /\ UNCHANGED <<create_frame, sent, call, result>>
                ELSE Finish(entry.service, entry.fields.email, TRUE,
                            Value(out.user), out.users, <<>>, Without(i))

\* app create sends the verification mail and returns the user; what
\* send_verification_email raises leaves create
CreateSend ==
    \E i \in DOMAIN pending :
        LET entry == pending[i]
            out   == send_verification_email(Attributes(entry.fields))
        IN
        /\ entry.pc = "send"
        /\ Finish(entry.service, entry.fields.email, TRUE,
                  IF out.result.raised # "none" THEN out.result
                  ELSE Value(Some(entry.fields)),
                  users, out.sent, Without(i))

NextCreate ==
    \/ CreateStart
    \/ CreateCount
    \/ CreateCommit
    \/ CreateSend

SpecCreate == InitAccounts /\ [][NextCreate]_vars

-----------------------------------------------------------------------------
(* Properties of registration *)

Admins == { id \in DOMAIN users : users[id].role = "ADMIN" }

\* a create call of app/services/user_service.py that stored its user is over
Registered ==
    /\ call.fn = "create"
    /\ call.service = "app.services.user_service"
    /\ call.added

RegisteredUser == first_by_email(users, call.email).value

Refused ==
    /\ call.fn = "create"
    /\ ~call.added
    /\ ~first_by_email(users, call.email).none

\* C27: no two stored users have the same email; a create call for an email
\* that belongs to a stored user adds no user and sends no email: it raises
\* 'Email already exists' or returns None.
C27_EmailsStayUnique ==
    /\ \A i, j \in DOMAIN users : users[i].email = users[j].email => i = j
    /\ Refused
       => /\ sent = <<>>
          /\ \/ result = Raise(EmailExists)
             \/ result = Value(None)

-----------------------------------------------------------------------------
(* Tokens and the role checker: jwt_service, dependencies.require_role *)

\* str.upper() on one character, on a string
UpperChar(c) ==
    IF \E i \in DOMAIN LowerLetters : LowerLetters[i] = c
    THEN UpperLetters[CHOOSE i \in DOMAIN LowerLetters : LowerLetters[i] = c]
    ELSE c

Upper(s) == [i \in DOMAIN s |-> UpperChar(s[i])]

\* jwt_service.create_access_token: the role in upper case, lang "en" unless
\* given; the expiry is in the token's validity
create_access_token(data) ==
    LET cased == IF "role" \in DOMAIN data
                 THEN [data EXCEPT !["role"] = Upper(@)]
                 ELSE data
    IN  [valid |-> TRUE, payload |-> Merge([lang |-> en], cased)]

\* the same token once expired, or with a signature that does not verify
Invalid(token) == [token EXCEPT !.valid = FALSE]

\* x in roles, for roles a list or a str
InList(x, roles) == \E i \in DOMAIN roles : roles[i] = x

InStr(x, roles) ==
    \E i \in 0..(Len(roles) - Len(x)) : SubSeq(roles, i + 1, i + Len(x)) = x

\* the roles argument of require_role: a list of role names, or a str
RoleList(items) == [list |-> TRUE, value |-> items]

RoleStr(text) == [list |-> FALSE, value |-> text]

In(x, roles) ==
    IF roles.list THEN InList(x, roles.value) ELSE InStr(x, roles.value)

\* a checker that lets every authenticated caller through
role_checker_open(roles, token) ==
    LET auth == get_current_user(token) IN
    [status |-> auth.status, user |-> auth.user]

\* require_role(roles) as a dependency: get_current_user, then role_checker.
\* The status is 200 when the operation behind the checker runs.
role_checker(roles, token) ==
    LET auth == get_current_user(token) IN
    IF auth.status # 200 THEN [status |-> auth.status, user |-> EmptyDict]
    ELSE IF ~In(auth.user["role"], roles)
         THEN [status |-> 403, user |-> EmptyDict]
         ELSE [status |-> 200, user |-> auth.user]

ADMIN == <<"A","D","M","I","N">>

MANAGER == <<"M","A","N","A","G","E","R">>

AUTHENTICATED == <<"A","U","T","H","E","N","T","I","C","A","T","E","D">>

ANONYMOUS == <<"A","N","O","N","Y","M","O","U","S">>

\* the data login puts in a token: a subject and a role (the role also in
\* lower case), or one of them missing
TokenDatas ==
    { Merge(sub, role) :
        sub \in Optional("sub", {MailAddress}),
        role \in Optional("role", {ADMIN, MANAGER, AUTHENTICATED, ANONYMOUS,
                                   Lower(ADMIN), Lower(MANAGER)}) }

\* the tokens a caller presents for that data: the one issued, and the same
\* no longer valid
Tokens(data) ==
    { create_access_token(data), Invalid(create_access_token(data)) }

\* the roles an operation requires
RequiredRoleArgs ==
    { RoleList(<<ADMIN>>), RoleList(<<ADMIN, MANAGER>>),
      RoleList(<<AUTHENTICATED, MANAGER, ADMIN>>),
      RoleStr(ADMIN), RoleStr(Join(<<ADMIN, MANAGER>>, <<",">>)) }

\* a request to an operation behind require_role(roles)
ProtectedRequest ==
    \E roles \in RequiredRoleArgs, data \in TokenDatas :
      \E token \in Tokens(data) :
        /\ call' = [fn |-> "role_checker", roles |-> roles, data |-> data,
                    token |-> token]
        /\ result' = Value(role_checker(roles, token))
        /\ UNCHANGED <<catalog_vars, request_vars>>

NextRole == ProtectedRequest

SpecRole == InitAccounts /\ [][NextRole]_vars

\* the role names a roles argument stands for
RequiredRoles(roles) ==
    LET names == IF roles.list THEN roles.value ELSE Split(roles.value, ",")
    IN  { names[i] : i \in DOMAIN names }

\* the token of the call decodes, and its payload has a subject and a role
Decodes == call.token.valid

HasSubjectAndRole ==
    /\ "sub" \in DOMAIN call.token.payload
    /\ "role" \in DOMAIN call.token.payload

\* C28: the role checker lets a request through only if its token decodes,
\* the payload has a subject and a role, and the role is one of the required
\* roles; an undecodable token or a payload without one of the two fields is
\* answered 401, a role that is not required 403.
C28_RoleCheckerAuthorises ==
    call.fn = "role_checker"
    => /\ result.value.status = 200
          <=> /\ Decodes
              /\ HasSubjectAndRole
              /\ call.token.payload["role"] \in RequiredRoles(call.roles)
       /\ (~Decodes \/ ~HasSubjectAndRole) => result.value.status = 401
       /\ ( /\ Decodes
            /\ HasSubjectAndRole
            /\ call.token.payload["role"] \notin RequiredRoles(call.roles) )
          => result.value.status = 403
       /\ result.value.status = 200
          => result.value.user = [user_id |-> call.token.payload["sub"],
                                  role |-> call.token.payload["role"]]

\* a manager is refused an operation for administrators
C28_Witness ==
    /\ call.fn = "role_checker"
    /\ Decodes
    /\ HasSubjectAndRole
    /\ call.data["role"] = Lower(MANAGER)
    /\ call.token.payload["role"] = MANAGER
    /\ call.roles = RoleStr(ADMIN)
    /\ result.value.status = 403

-----------------------------------------------------------------------------
(* The ways a stored preference is written: registration, update, the         *)
(* preference endpoints                                                       *)

\* test_user_service.UserService.update: the columns named in user_data are
\* written as given
test_user_service_update(db, user_id, user_data) ==
    LET uuid == ToUuid(user_id) IN
    IF uuid.raised # "none" THEN Done(db, None)
    ELSE IF first_by_id(db, uuid.value).none THEN Done(db, None)
    ELSE IF "email" \in DOMAIN user_data /\ ~Contains(user_data["email"], "@")
         THEN Done(db, None)
    ELSE LET values == IF "password" \in DOMAIN user_data
                       THEN [k \in (DOMAIN user_data \ {"password"})
                                      \cup {"hashed_password"} |->
                                IF k = "hashed_password"
                                THEN hash_password(user_data["password"])
                                ELSE user_data[k]]
                       ELSE user_data
             updated == [db EXCEPT ![uuid.value] = Merge(@, values)]
         IN  Done(updated, Some(updated[uuid.value]))

\* languages as a client writes them: supported, well-formed but not
\* supported
LanguageInputs == {fr, zz}

\* timezones as a client writes them: known to the timezone database, unknown
TimezoneWrites == {"Europe/Paris", "Mars/Phobos"}

\* registrations that name the preferences, or leave them to the defaults
PreferenceRegistrations ==
    { Merge([email |-> email, password |-> Secret, role |-> "ANONYMOUS"], prefs) :
        email \in AccountEmails,
        prefs \in { EmptyDict, [preferred_language |-> zz],
                    [preferred_language |-> <<"F","R">>],
                    [preferred_timezone |-> "Mars/Phobos"] } }

\* UserService.create, one call at a time
RegisterUser ==
    CreateStartOf({"app.services.user_service"}, PreferenceRegistrations, 1)

\* UserService.update of a preference
UpdateUser ==
    \E user_id \in {AsUuid(1), AsStr(<<"m","e">>)},
       user_data \in { [preferred_language |-> fr],
                       [preferred_timezone |-> "Mars/Phobos"] } :
        LET out == test_user_service_update(users, user_id, user_data) IN
        /\ pending = <<>>
        /\ call' = [fn |-> "update", user_id |-> user_id, user_data |-> user_data]
        /\ result' = out.result
        /\ users' = out.users
        /\ UNCHANGED account_frame

\* a request to one of the four preference endpoints, from a logged-in client
PreferenceRequest ==
    /\ pending = <<>>
    /\ \/ \E l \in LanguageInputs :
             \/ Dispatch(Request(ROUTE_UPDATE_LANGUAGE, EmptyDict, EmptyDict,
                                 jar, UserToken, Dict1("language", l)))
             \/ Dispatch(Request(ROUTE_SET_LANGUAGE, Dict1("language_code", l),
                                 EmptyDict, jar, UserToken, EmptyDict))
       \/ \E tz \in TimezoneWrites :
             \/ Dispatch(Request(ROUTE_UPDATE_TIMEZONE, EmptyDict, EmptyDict,
                                 jar, UserToken, Dict1("timezone", tz)))
             \/ Dispatch(Request(ROUTE_SET_TIMEZONE, Dict1("timezone", tz),
                                 EmptyDict, jar, UserToken, EmptyDict))

NextPreferences ==
    \/ RegisterUser
    \/ CreateCount
    \/ CreateCommit
    \/ CreateSend
    \/ UpdateUser
    \/ PreferenceRequest

SpecPreferences == InitAccounts /\ [][NextPreferences]_vars

-----------------------------------------------------------------------------
(* The language cookie over consecutive requests *)

\* the response carries a preferred_language directive and the client's jar
\* holds its value
DirectiveStored ==
    /\ response.by_dispatch
    /\ Truthy(jar, "preferred_language")
    /\ \E i \in DOMAIN response.set_cookie :
           /\ response.set_cookie[i].key = "preferred_language"
           /\ response.set_cookie[i].value = jar["preferred_language"]

\* a request that carries nothing but the client's cookies
CookieOnly(req) ==
    /\ ~PathMatches(req.path)
    /\ req.query_params = EmptyDict
    /\ req.headers = EmptyDict
    /\ req.cookies = jar

\* the last request carried only the stored cookie, resolved to its value and
\* was answered without a directive
Converged ==
    /\ response.by_dispatch
    /\ Truthy(jar, "preferred_language")
    /\ CookieOnly(request)
    /\ language = jar["preferred_language"]
    /\ response.set_cookie = <<>>

\* C30: once the client has stored the preferred_language directive of a
\* response, a following request that carries only that cookie resolves to
\* the cookie's language and is answered without a directive, and so is
\* every request after it.
C30_CookieConverges ==
    [][ ( /\ DirectiveStored \/ Converged
          /\ CookieOnly(request') )
        => /\ language' = jar["preferred_language"]
           /\ response'.set_cookie = <<>>
           /\ mw_cookie' = <<>>
           /\ jar' = jar
           /\ Converged' ]_vars

\* the client came with a cookie of an unsupported language, sent a lang
\* parameter, and now holds the directive's es
C30_Witness ==
    /\ DirectiveStored
    /\ request.cookies = Dict1("preferred_language", zz)
    /\ jar = Dict1("preferred_language", es)
    /\ language = es

====
